---------------------------- MODULE Spec2Model ----------------------------
(***************************************************************************)
(* A model of the GPUScheduler daemon: the job state machine               *)
(* (scheduler/stateMachine.py), the queue manager                          *)
(* (scheduler/queueManager.py), the admission / preemption policy          *)
(* (scheduler/policy.py), the process supervisor (daemon/runner.py) and    *)
(* the event loop of the scheduler core (scheduler/core.py) together with  *)
(* the threads of serve.py that call into it.                              *)
(*                                                                         *)
(* Threads.  The loop thread runs SchedulerCore.run; it holds the          *)
(* condition mutex only around the stop test and the wait, so its phases   *)
(* interleave with submitJob / cancelJob / stop, which are called from the *)
(* main (sweep) thread, and with the monitor thread.  The loop thread is   *)
(* therefore modelled as a sequence of steps (field loop.pc), one step per *)
(* stretch of code that is followed by a blocking call or by a write that  *)
(* another thread can observe.                                             *)
(***************************************************************************)
EXTENDS Integers, Sequences, FiniteSets, TLC

(***************************************************************************)
(* Bounds of the model.                                                    *)
(***************************************************************************)
MaxJobs == 2
MaxTime == 1
MaxPid == 3
MaxCancels == 1
MaxThreads == 3

(***************************************************************************)
(* Program constants.                                                      *)
(***************************************************************************)
\* Python's None in an integer-valued slot (pid, startedAt, exit code ...).
NoneVal == -1
\* SchedulerPolicy's constructor defaults.
staticUtilThreshold == 60
staticMemThreshold == 80
historyWindow == 5
spikeDelta == 25
cooldownSeconds == 5
\* shouldPreempt's thrash threshold.
preemptUtilLimit == 90
\* SchedulerCore.__init__: Monitor(..., utilDeltaThreshold=10.0)
utilDeltaThreshold == 10
\* Job.assignedGpu before any allocation.
defaultAssignedGpu == 0

\* SchedulerCore.gpuIndices when the constructor is given none (serve.main).
defaultGpuIndices == <<0>>
\* SchedulerCore(gpuIndices=[0, 1]): a core built over two devices.
twoGpuIndices == <<0, 1>>

JobIds == 1..MaxJobs
Pids == 1..MaxPid
Times == 0..MaxTime

\* Inputs of the model: the attribute combinations a submitted job may carry
\* (the inbox default, an urgent job with a deadline, a shared job that is
\* not preemptible, an urgent job that needs two devices), the utilisation a
\* telemetry snapshot may report, a child's own exit codes.
JobKinds ==
    {[priority |-> 10, requiredGpus |-> 1, exclusive |-> TRUE,
      preemptible |-> TRUE, maxRuntimeSeconds |-> NoneVal],
     [priority |-> 1, requiredGpus |-> 1, exclusive |-> TRUE,
      preemptible |-> TRUE, maxRuntimeSeconds |-> 1],
     [priority |-> 10, requiredGpus |-> 1, exclusive |-> FALSE,
      preemptible |-> FALSE, maxRuntimeSeconds |-> NoneVal],
     [priority |-> 1, requiredGpus |-> 2, exclusive |-> FALSE,
      preemptible |-> TRUE, maxRuntimeSeconds |-> NoneVal]}
UtilValues == {20, 95}
ExitCodes == {0, 1}

(***************************************************************************)
(* Small helpers on sequences.                                             *)
(***************************************************************************)
Range(s) == {s[i] : i \in 1..Len(s)}

Prefix(s, n) == [i \in 1..n |-> s[i]]

RECURSIVE SumSeq(_)
SumSeq(s) == IF s = <<>> THEN 0 ELSE Head(s) + SumSeq(Tail(s))

Abs(x) == IF x < 0 THEN -x ELSE x

(***************************************************************************)
(* The job state machine (stateMachine.py).                                *)
(***************************************************************************)
Status == {"queued", "running", "paused", "finished", "failed", "cancelled"}
Terminal == {"finished", "failed", "cancelled"}

\* JobStateMachine._allowedTransitions
allowedTransitions(s) ==
    CASE s = "queued"  -> {"running", "cancelled"}
      [] s = "running" -> {"paused", "finished", "failed", "cancelled"}
      [] s = "paused"  -> {"running", "cancelled"}
      [] OTHER         -> {}

\* A mutation of transition: the new status is written before the table is
\* consulted, so a refused request still leaves its mark on the job.
transitionWriteFirst(j, newStatus, t) ==
    [ok  |-> newStatus \in allowedTransitions(j.status),
     job |-> [j EXCEPT !.status = newStatus]]

\* JobStateMachine.transition(job, newStatus) at wall-clock time t.
\* ok = FALSE stands for the ValueError; job is the job afterwards.
transition(j, newStatus, t) ==
    IF newStatus \notin allowedTransitions(j.status)
    THEN [ok |-> FALSE, job |-> j]
    ELSE LET j1 == [j EXCEPT !.status = newStatus]
             j2 == IF newStatus = "running"
                   THEN [j1 EXCEPT !.startedAt = t] ELSE j1
             j3 == IF newStatus \in Terminal
                   THEN [j2 EXCEPT !.finishedAt = t, !.pid = NoneVal,
                                   !.assignedGpu = NoneVal]
                   ELSE j2
         IN [ok |-> TRUE, job |-> j3]

\* The convenience wrappers.
start(j, t) == transition(j, "running", t)
pause(j, t) == transition(j, "paused", t)
resume(j, t) == transition(j, "running", t)
\* finish(job, success=True)
finish(j, success, t) ==
    transition(j, IF success THEN "finished" ELSE "failed", t)
cancelTransition(j, t) == transition(j, "cancelled", t)

(***************************************************************************)
(* heapq on a list of (priority, createdAt, id) tuples.  Positions are     *)
(* 0-based as in Python; the sequence is 1-based.                          *)
(***************************************************************************)
\* Python's tuple comparison a < b.
TupleLess(a, b) ==
    \/ a[1] < b[1]
    \/ a[1] = b[1] /\ a[2] < b[2]
    \/ a[1] = b[1] /\ a[2] = b[2] /\ a[3] < b[3]

At(h, pos) == h[pos + 1]
Put(h, pos, x) == [h EXCEPT ![pos + 1] = x]

RECURSIVE SiftDownLoop(_, _, _, _)
SiftDownLoop(h, startpos, pos, newitem) ==
    IF pos > startpos
    THEN LET parentpos == (pos - 1) \div 2
             parent == At(h, parentpos)
         IN IF TupleLess(newitem, parent)
            THEN SiftDownLoop(Put(h, pos, parent), startpos, parentpos, newitem)
            ELSE Put(h, pos, newitem)
    ELSE Put(h, pos, newitem)

\* heapq._siftdown(heap, startpos, pos)
SiftDown(h, startpos, pos) == SiftDownLoop(h, startpos, pos, At(h, pos))

RECURSIVE SiftUpLoop(_, _, _, _)
SiftUpLoop(h, startpos, pos, newitem) ==
    LET endpos == Len(h)
        childpos == 2 * pos + 1
    IN IF childpos < endpos
       THEN LET rightpos == childpos + 1
                c == IF rightpos < endpos
                        /\ ~TupleLess(At(h, childpos), At(h, rightpos))
                     THEN rightpos ELSE childpos
            IN SiftUpLoop(Put(h, pos, At(h, c)), startpos, c, newitem)
       ELSE SiftDown(Put(h, pos, newitem), startpos, pos)

\* heapq._siftup(heap, pos)
SiftUp(h, pos) == SiftUpLoop(h, pos, pos, At(h, pos))

\* heapq.heappush(heap, item)
heappush(h, item) == SiftDown(Append(h, item), 0, Len(h))

\* heapq.heappop(heap): the popped item and the heap afterwards.
heappop(h) ==
    LET lastelt == h[Len(h)]
        rest == SubSeq(h, 1, Len(h) - 1)
    IN IF rest = <<>>
       THEN [item |-> lastelt, heap |-> <<>>]
       ELSE [item |-> rest[1], heap |-> SiftUp(Put(rest, 0, lastelt), 0)]

RECURSIVE HeapifyFrom(_, _)
HeapifyFrom(h, i) ==
    IF i < 0 THEN h ELSE HeapifyFrom(SiftUp(h, i), i - 1)

\* heapq.heapify(x)
heapify(h) == IF Len(h) < 2 THEN h ELSE HeapifyFrom(h, (Len(h) \div 2) - 1)


(***************************************************************************)
(* State.                                                                  *)
(***************************************************************************)
VARIABLES
    gpuIndices,     \* SchedulerCore.gpuIndices: the configured devices
    job,            \* id -> Job object (every job ever submitted)
    heap,           \* QueueManager._heap: list of (priority, createdAt, id)
    jobMap,         \* QueueManager._jobMap: the ids in the index
    runningByGpu,   \* QueueManager._runningByGpu: ordered dict gpu -> [id]
    processTable,   \* runner._processTable: the pids under management
    jobByPid,       \* runner._jobByPid: pid -> id
    child,          \* the children: pid -> exit code, NoneVal while alive
    nextPid,        \* the pid the next spawn returns
    lastSnapshot,   \* Monitor._lastSnapshot
    utilHistory,    \* SchedulerPolicy._utilHistory: gpu -> [util]
    cooldownUntil,  \* SchedulerPolicy._cooldownUntil: gpu -> time, 0 unset
    stopFlag,       \* SchedulerCore._stop
    loop,           \* the loop thread: position and locals of run()
    cancel,         \* the sweep thread inside cancelJob
    cancels,        \* the cancel requests made so far
    notified,       \* the condition variable: a waiter has been notified
    now,            \* time.time()
    lastCall        \* the direct calls of a component by a script or a sweep

vars == <<gpuIndices, lastCall, job, heap, jobMap, runningByGpu, processTable, jobByPid, child,
          nextPid, lastSnapshot, utilHistory, cooldownUntil, stopFlag, loop,
          cancel, cancels, notified, now>>

qmVars == <<heap, jobMap, runningByGpu>>
runnerVars == <<processTable, jobByPid, child, nextPid>>
policyVars == <<utilHistory, cooldownUntil>>

GpuSet == Range(gpuIndices)

\* Job(...): a new job object as the submit interface builds it.
NewJob(kind, t) ==
    [priority |-> kind.priority, requiredGpus |-> kind.requiredGpus,
     exclusive |-> kind.exclusive, preemptible |-> kind.preemptible,
     maxRuntimeSeconds |-> kind.maxRuntimeSeconds,
     status |-> "queued", createdAt |-> t, startedAt |-> NoneVal,
     finishedAt |-> NoneVal, assignedGpu |-> defaultAssignedGpu,
     pid |-> NoneVal]

\* Job.hasExceededRuntime() at time t.
hasExceededRuntime(j, t) ==
    /\ j.maxRuntimeSeconds # NoneVal
    /\ j.startedAt # NoneVal
    /\ t >= j.startedAt + j.maxRuntimeSeconds

(***************************************************************************)
(* The queue manager (queueManager.py), as operators on its three fields.  *)
(***************************************************************************)
\* self._runningByGpu.get(gpu, [])
RunningOn(rbg, g) ==
    IF \E i \in 1..Len(rbg) : rbg[i].gpu = g
    THEN rbg[CHOOSE i \in 1..Len(rbg) : rbg[i].gpu = g].jobs
    ELSE <<>>

\* self._runningByGpu.setdefault(gpu, []).append(id)
AppendRunning(rbg, g, id) ==
    IF \E i \in 1..Len(rbg) : rbg[i].gpu = g
    THEN [i \in 1..Len(rbg) |->
            IF rbg[i].gpu = g
            THEN [rbg[i] EXCEPT !.jobs = Append(@, id)] ELSE rbg[i]]
    ELSE Append(rbg, [gpu |-> g, jobs |-> <<id>>])

RECURSIVE AppendRunningAll(_, _, _)
AppendRunningAll(rbg, gpus, id) ==
    IF gpus = <<>> THEN rbg
    ELSE AppendRunningAll(AppendRunning(rbg, Head(gpus), id), Tail(gpus), id)

\* QueueManager.addJob: the heap afterwards (the index gains job.id).
addJob(h, id, j) == heappush(h, <<j.priority, j.createdAt, id>>)

RECURSIVE DropHeapId(_, _)
\* [item for item in self._heap if item[2] != jobId]
DropHeapId(h, id) ==
    IF h = <<>> THEN <<>>
    ELSE IF Head(h)[3] = id THEN DropHeapId(Tail(h), id)
         ELSE <<Head(h)>> \o DropHeapId(Tail(h), id)

\* QueueManager.removeJob: the heap afterwards (no heapify).
removeJob(h, id) == DropHeapId(h, id)

RECURSIVE FreeGpusFrom(_, _, _)
FreeGpusFrom(all, rbg, jobs) ==
    IF all = <<>> THEN <<>>
    ELSE LET g == Head(all)
             runningJobs == RunningOn(rbg, g)
             free == \/ runningJobs = <<>>
                     \/ \A i \in 1..Len(runningJobs) :
                            ~jobs[runningJobs[i]].exclusive
         IN (IF free THEN <<g>> ELSE <<>>)
            \o FreeGpusFrom(Tail(all), rbg, jobs)

\* QueueManager._getFreeGpus(allGpuIndices)
getFreeGpus(all, rbg, jobs) == FreeGpusFrom(all, rbg, jobs)

RECURSIVE PopCandidate(_, _, _, _)
\* The while loop of findAndAssignJob over tempHeap: the id selected, or
\* NoneVal when the heap is exhausted.
PopCandidate(tempHeap, index, jobs, nFree) ==
    IF tempHeap = <<>> THEN NoneVal
    ELSE LET p == heappop(tempHeap)
             id == p.item[3]
         IN IF id \notin index THEN PopCandidate(p.heap, index, jobs, nFree)
            ELSE IF jobs[id].status # "queued"
                 THEN PopCandidate(p.heap, index, jobs, nFree)
            ELSE IF jobs[id].requiredGpus <= nFree THEN id
            ELSE PopCandidate(p.heap, index, jobs, nFree)

\* A mutation of findAndAssignJob: the selected job is put on its devices
\* but its heap entry is left behind.
findAndAssignKeepsHeap(all, h, index, rbg, jobs) ==
    IF h = <<>> THEN [job |-> NoneVal, allocated |-> <<>>, heap |-> h, rbg |-> rbg]
    ELSE LET freeGpus == getFreeGpus(all, rbg, jobs)
             id == PopCandidate(heapify(h), index, jobs, Len(freeGpus))
         IN IF freeGpus = <<>> \/ id = NoneVal
            THEN [job |-> NoneVal, allocated |-> <<>>, heap |-> h, rbg |-> rbg]
            ELSE [job |-> id,
                  allocated |-> Prefix(freeGpus, jobs[id].requiredGpus),
                  heap |-> h,
                  rbg |-> AppendRunningAll(rbg,
                              Prefix(freeGpus, jobs[id].requiredGpus), id)]

\* QueueManager.findAndAssignJob(allGpuIndices): the allocation (job is
\* NoneVal for a None result) and the heap and running map afterwards.
findAndAssignJob(all, h, index, rbg, jobs) ==
    IF h = <<>> THEN [job |-> NoneVal, allocated |-> <<>>, heap |-> h, rbg |-> rbg]
    ELSE LET freeGpus == getFreeGpus(all, rbg, jobs)
             id == PopCandidate(heapify(h), index, jobs, Len(freeGpus))
         IN IF freeGpus = <<>> \/ id = NoneVal
            THEN [job |-> NoneVal, allocated |-> <<>>, heap |-> h, rbg |-> rbg]
            ELSE [job |-> id,
                  allocated |-> Prefix(freeGpus, jobs[id].requiredGpus),
                  heap |-> heapify(DropHeapId(h, id)),
                  rbg |-> AppendRunningAll(rbg,
                              Prefix(freeGpus, jobs[id].requiredGpus), id)]

RECURSIVE RemoveFirst(_, _)
\* list.remove(x)
RemoveFirst(s, x) ==
    IF s = <<>> THEN <<>>
    ELSE IF Head(s) = x THEN Tail(s)
         ELSE <<Head(s)>> \o RemoveFirst(Tail(s), x)

RECURSIVE ReleaseFrom(_, _)
ReleaseFrom(rbg, id) ==
    IF rbg = <<>> THEN <<>>
    ELSE LET e == Head(rbg)
             js == RemoveFirst(e.jobs, id)
         IN (IF js = <<>> THEN <<>> ELSE <<[e EXCEPT !.jobs = js]>>)
            \o ReleaseFrom(Tail(rbg), id)

\* QueueManager.releaseJob(job): the running map afterwards.
releaseJob(rbg, id) == ReleaseFrom(rbg, id)

\* QueueManager.requeueJob(job) at time t: the job and the heap afterwards.
requeueJob(h, id, j, t) ==
    LET j1 == [j EXCEPT !.status = "queued", !.createdAt = t]
    IN [job |-> j1, heap |-> heappush(h, <<j1.priority, j1.createdAt, id>>)]

RECURSIVE Dedup(_, _)
Dedup(s, seen) ==
    IF s = <<>> THEN <<>>
    ELSE IF Head(s) \in seen THEN Dedup(Tail(s), seen)
         ELSE <<Head(s)>> \o Dedup(Tail(s), seen \cup {Head(s)})

RECURSIVE ConcatJobs(_)
ConcatJobs(rbg) ==
    IF rbg = <<>> THEN <<>> ELSE Head(rbg).jobs \o ConcatJobs(Tail(rbg))

\* QueueManager.getRunningJobs(): every job of the running map, once.
getRunningJobs(rbg) == Dedup(ConcatJobs(rbg), {})

\* QueueManager.getRunningJobsOnGpu(gpuIndex)
getRunningJobsOnGpu(rbg, g) == RunningOn(rbg, g)

\* QueueManager.peekHighestPriorityQueued(): the id, NoneVal for None.
peekHighestPriorityQueued(h, index) ==
    IF h = <<>> THEN NoneVal
    ELSE IF h[1][3] \in index THEN h[1][3] ELSE NoneVal

RECURSIVE QueuedFrom(_, _, _)
QueuedFrom(h, index, jobs) ==
    IF h = <<>> THEN <<>>
    ELSE LET id == Head(h)[3]
         IN (IF id \in index /\ jobs[id].status = "queued"
             THEN <<id>> ELSE <<>>)
            \o QueuedFrom(Tail(h), index, jobs)

\* QueueManager.getQueuedJobs()
getQueuedJobs(h, index, jobs) == QueuedFrom(h, index, jobs)

(***************************************************************************)
(* The policy engine (policy.py).                                          *)
(***************************************************************************)
\* A mutation of updateMetrics: the history is never trimmed.
updateMetricsUntrimmed(hist, util) == Append(hist, util)

\* SchedulerPolicy.updateMetrics: the history of one device afterwards.
updateMetrics(hist, util) ==
    LET h == Append(hist, util)
    IN IF Len(h) > historyWindow THEN Tail(h) ELSE h

\* SchedulerPolicy._detectSpike
detectSpike(hist) ==
    /\ Len(hist) >= 2
    /\ Abs(hist[Len(hist)] - hist[Len(hist) - 1]) > spikeDelta

\* A mutation of _isCoolingDown: the comparison with the deadline the other
\* way round.
isCoolingDownFlipped(until, t) == until # 0 /\ t > until

\* SchedulerPolicy._isCoolingDown at time t (an unset or zero deadline is
\* falsy).
isCoolingDown(until, t) == until # 0 /\ t < until

\* SchedulerPolicy.canScheduleOnGpu(gpuIndex, currentUtil, currentMemUtil)
\* at time t (currentMemUtil is NoneVal when it is left at None, as the core
\* calls it): the decision and the device's history and cooldown deadline
\* afterwards.
canScheduleOnGpu(hist, until, util, memUtil, t) ==
    LET h == updateMetrics(hist, util)
        memOk == memUtil = NoneVal \/ memUtil < staticMemThreshold
    IN IF isCoolingDown(until, t)
       THEN [allow |-> FALSE, hist |-> h, until |-> until]
       ELSE IF detectSpike(h)
       THEN [allow |-> FALSE, hist |-> h, until |-> t + cooldownSeconds]
       ELSE IF SumSeq(h) < staticUtilThreshold * Len(h) /\ memOk
       THEN [allow |-> TRUE, hist |-> h, until |-> until]
       ELSE IF util < staticUtilThreshold /\ memOk
       THEN [allow |-> TRUE, hist |-> h, until |-> until]
       ELSE [allow |-> FALSE, hist |-> h, until |-> until]

\* A mutation of shouldPreempt: the priority comparison the other way round.
shouldPreemptFlipped(util, jobPriority, incomingPriority) ==
    /\ ~(incomingPriority <= jobPriority)
    /\ ~(util > preemptUtilLimit)

\* SchedulerPolicy.shouldPreempt(gpuIndex, currentUtil, jobPriority,
\* incomingPriority)
shouldPreempt(util, jobPriority, incomingPriority) ==
    /\ ~(incomingPriority >= jobPriority)
    /\ ~(util > preemptUtilLimit)

\* SchedulerCore._getGpuUtil(snapshot, gpuIndex)
getGpuUtil(snapshot, g) == snapshot.util[g]

RECURSIVE AdmitAll(_, _, _, _, _)
\* The admission loop of _handleScheduling over the allocated devices, which
\* stops at the first denial.
AdmitAll(gpus, hists, untils, snapshot, t) ==
    IF gpus = <<>> THEN [allow |-> TRUE, hists |-> hists, untils |-> untils]
    ELSE LET g == Head(gpus)
             r == canScheduleOnGpu(hists[g], untils[g],
                                   getGpuUtil(snapshot, g), NoneVal, t)
             hs == [hists EXCEPT ![g] = r.hist]
             us == [untils EXCEPT ![g] = r.until]
         IN IF r.allow THEN AdmitAll(Tail(gpus), hs, us, snapshot, t)
            ELSE [allow |-> FALSE, hists |-> hs, untils |-> us]

(***************************************************************************)
(* The process supervisor (runner.py).                                     *)
(***************************************************************************)
\* runner.pollJob(pid): the exit code, NoneVal for None.
pollJob(pid) ==
    IF pid \notin processTable THEN NoneVal ELSE child[pid]

\* runner._cleanup(pid) on the pair of tables.
cleanupTable(tbl, pid) == tbl \ {pid}
\* A mutation of _cleanup: the pid -> job table keeps the pid.
cleanupJobsKeepsPid(jbp, pid) == jbp
cleanupJobs(jbp, pid) == [p \in (DOMAIN jbp) \ {pid} |-> jbp[p]]

\* runner.terminateJob(pid), taken as one step.  reaped says whether one of
\* the polls after SIGTERM or SIGKILL saw the child gone; a child that has
\* already exited is always reaped.  A reaped child is dropped from both
\* tables and ceases to exist; one that is not reaped stays as it is.
terminateJob(pid, reaped) ==
    IF pid \notin processTable
    THEN UNCHANGED runnerVars
    ELSE IF reaped \/ child[pid] # NoneVal
    THEN /\ processTable' = cleanupTable(processTable, pid)
         /\ jobByPid' = cleanupJobs(jobByPid, pid)
         /\ child' = [p \in (DOMAIN child) \ {pid} |-> child[p]]
         /\ UNCHANGED nextPid
    ELSE UNCHANGED runnerVars

\* runner.checkRuntimeExceeded(pid) at time t.
checkRuntimeExceeded(pid, t) ==
    IF pid \notin DOMAIN jobByPid THEN FALSE
    ELSE hasExceededRuntime(job[jobByPid[pid]], t)

(***************************************************************************)
(* The condition variable of the core.                                     *)
(***************************************************************************)
LoopAlive == loop.pc \notin {"stopped", "crashed"}

\* self._condition.notify(): wakes the loop thread if it is inside wait().
Notify == notified' = (notified \/ loop.pc = "waiting")

\* The locals of run() outside any phase.
IdleLocals(pc) ==
    [pc |-> pc, todo |-> <<>>, finishedSomething |-> FALSE,
     scheduled |-> FALSE, job |-> NoneVal, exitCode |-> NoneVal,
     allocated |-> <<>>, pid |-> NoneVal]

NoSnapshot == [present |-> FALSE, util |-> [g \in GpuSet |-> 0]]
Snapshots == {[present |-> TRUE, util |-> u] : u \in [GpuSet -> UtilValues]}

\* No cancelJob call is in progress.  While one is, it holds the condition's
\* lock; monitorWaits says that the monitor thread is blocked in
\* _onMonitorUpdate waiting for that lock.
NoCancel ==
    [pc |-> "idle", job |-> NoneVal, monitorWaits |-> FALSE,
     result |-> "none"]
\* cancelJob(id) has returned: result is "true" or "false" for the value
\* returned and "raised" for an exception.
Returned(id, result) == [NoCancel EXCEPT !.job = id, !.result = result]

\* No direct call of the state machine has been made.
NoCall == [made |-> FALSE]

\* SchedulerCore(gpuIndices=gpus) and the module-level state of runner.py,
\* with the job objects that exist so far.
InitWith(gpus, jobs) ==
    /\ gpuIndices = gpus
    /\ lastCall = NoCall
    /\ job = jobs
    /\ heap = <<>>
    /\ jobMap = {}
    /\ runningByGpu = <<>>
    /\ processTable = {}
    /\ jobByPid = <<>>
    /\ child = <<>>
    /\ nextPid = 1
    /\ lastSnapshot = NoSnapshot
    /\ utilHistory = [g \in GpuSet |-> <<>>]
    /\ cooldownUntil = [g \in GpuSet |-> 0]
    /\ stopFlag = FALSE
    /\ loop = IdleLocals("top")
    /\ cancel = NoCancel
    /\ cancels = 0
    /\ notified = FALSE
    /\ now = 0

\* serve.main: core = SchedulerCore()
Init == InitWith(defaultGpuIndices, <<>>)

(***************************************************************************)
(* The main (sweep) thread: submitJob, cancelJob, stop (core.py), called   *)
(* from serve.py while the loop thread is alive.                           *)
(***************************************************************************)
\* SchedulerCore.submitJob(job) for a new job with identifier id.
SubmitJob(id, kind) ==
    /\ LoopAlive
    /\ cancel.pc = "idle"
    /\ id \notin DOMAIN job
    /\ id = Cardinality(DOMAIN job) + 1
    /\ LET j == NewJob(kind, now)
       IN /\ job' = [i \in (DOMAIN job) \cup {id} |->
                        IF i = id THEN j ELSE job[i]]
          /\ heap' = addJob(heap, id, j)
    /\ jobMap' = jobMap \cup {id}
    /\ Notify
    /\ UNCHANGED <<gpuIndices, lastCall, runningByGpu, runnerVars, lastSnapshot, policyVars,
                   stopFlag, loop, cancel, cancels, now>>

\* cancelJob(id) up to its first blocking call.  A job found in the heap is
\* cancelled and removed at once; a job found in the running map has its
\* child terminated first (when it has a pid); an unknown id returns False.
CancelBegin(id, reaped) ==
    /\ LoopAlive
    /\ cancel.pc = "idle"
    /\ cancels < MaxCancels
    /\ cancels' = cancels + 1
    /\ IF id \in Range(getQueuedJobs(heap, jobMap, job))
       THEN LET r == cancelTransition(job[id], now)
            IN /\ job' = [job EXCEPT ![id] = r.job]
               /\ heap' = removeJob(heap, id)
               /\ jobMap' = jobMap \ {id}
               /\ Notify
               /\ cancel' = Returned(id, "true")
               /\ UNCHANGED <<runningByGpu, runnerVars>>
       ELSE IF id \in Range(getRunningJobs(runningByGpu))
       THEN /\ IF job[id].pid # NoneVal
               THEN terminateJob(job[id].pid, reaped)
               ELSE UNCHANGED runnerVars
            /\ cancel' = [NoCancel EXCEPT !.pc = "terminated", !.job = id]
            /\ UNCHANGED <<job, qmVars, notified>>
       ELSE /\ cancel' = Returned(id, "false")
            /\ UNCHANGED <<job, qmVars, runnerVars, notified>>
    /\ UNCHANGED <<gpuIndices, lastCall, lastSnapshot, policyVars, stopFlag, loop, now>>

\* cancelJob for a running job after terminateJob has returned: the
\* transition to Cancelled and the release.  A refused transition raises out
\* of cancelJob, where serve.handleControlCommands catches it.  Either way
\* the lock is released, and a monitor callback that waited for it
\* notifies.
CancelFinish ==
    /\ cancel.pc = "terminated"
    /\ LET id == cancel.job
           r == cancelTransition(job[id], now)
       IN IF r.ok
          THEN /\ job' = [job EXCEPT ![id] = r.job]
               /\ runningByGpu' = releaseJob(runningByGpu, id)
               /\ Notify
               /\ cancel' = Returned(id, "true")
          ELSE /\ UNCHANGED <<job, runningByGpu>>
               /\ IF cancel.monitorWaits THEN Notify ELSE UNCHANGED notified
               /\ cancel' = Returned(id, "raised")
    /\ UNCHANGED <<gpuIndices, lastCall, heap, jobMap, runnerVars, lastSnapshot, policyVars,
                   stopFlag, loop, cancels, now>>

\* SchedulerCore.stop()
Stop ==
    /\ LoopAlive
    /\ ~stopFlag
    /\ stopFlag' = TRUE
    /\ Notify
    /\ UNCHANGED <<gpuIndices, lastCall, job, qmVars, runnerVars, lastSnapshot, policyVars, loop,
                   cancel, cancels, now>>

(***************************************************************************)
(* The environment: the monitor thread, the children, the clock.           *)
(***************************************************************************)
\* One pass of Monitor._loop: a new snapshot is stored and the callback
\* notifies the core, once it gets the condition's lock.
MonitorPoll(snap) ==
    /\ LoopAlive
    /\ ~cancel.monitorWaits
    /\ lastSnapshot' = snap
    /\ IF cancel.pc = "idle"
       THEN Notify /\ UNCHANGED cancel
       ELSE /\ cancel' = [cancel EXCEPT !.monitorWaits = TRUE]
            /\ UNCHANGED notified
    /\ UNCHANGED <<gpuIndices, lastCall, job, qmVars, runnerVars, policyVars, stopFlag, loop,
                   cancels, now>>

\* A live child exits on its own with the given code.
ChildExit(pid, code) ==
    /\ pid \in DOMAIN child
    /\ child[pid] = NoneVal
    /\ child' = [child EXCEPT ![pid] = code]
    /\ UNCHANGED <<gpuIndices, lastCall, job, qmVars, processTable, jobByPid, nextPid,
                   lastSnapshot, policyVars, stopFlag, loop, cancel, cancels,
                   notified, now>>

\* The wall clock advances.
Tick ==
    /\ now < MaxTime
    /\ now' = now + 1
    /\ UNCHANGED <<gpuIndices, lastCall, job, qmVars, runnerVars, lastSnapshot, policyVars,
                   stopFlag, loop, cancel, cancels, notified>>

(***************************************************************************)
(* The loop thread: SchedulerCore.run and its three phases.                *)
(***************************************************************************)
\* The stop test at the top of the loop; a pass that goes on enters
\* _handleCompletions, which reads the list of running jobs once.
LoopTop ==
    /\ loop.pc = "top"
    /\ cancel.pc = "idle"
    /\ IF stopFlag
       THEN loop' = IdleLocals("stopped")
       ELSE loop' = [IdleLocals("completions") EXCEPT
                        !.todo = getRunningJobs(runningByGpu)]
    /\ UNCHANGED <<gpuIndices, lastCall, job, qmVars, runnerVars, lastSnapshot, policyVars,
                   stopFlag, cancel, cancels, notified, now>>

\* _handleCompletions: the next job of the list is polled.
LoopPoll ==
    /\ loop.pc = "completions"
    /\ IF loop.todo = <<>>
       THEN loop' = [loop EXCEPT !.pc = "preemption"]
       ELSE LET id == Head(loop.todo)
                exitCode == IF job[id].pid = NoneVal THEN NoneVal
                            ELSE pollJob(job[id].pid)
            IN IF exitCode # NoneVal
               THEN loop' = [loop EXCEPT !.pc = "finish", !.job = id,
                                         !.exitCode = exitCode]
               ELSE loop' = [loop EXCEPT !.todo = Tail(@)]
    /\ UNCHANGED <<gpuIndices, lastCall, job, qmVars, runnerVars, lastSnapshot, policyVars,
                   stopFlag, cancel, cancels, notified, now>>

\* _handleCompletions for a job whose child has exited: finish(job) and
\* releaseJob(job).  A refused transition ends the thread.
LoopFinish ==
    /\ loop.pc = "finish"
    /\ LET id == loop.job
           r == finish(job[id], TRUE, now)
       IN IF r.ok
          THEN /\ job' = [job EXCEPT ![id] = r.job]
               /\ runningByGpu' = releaseJob(runningByGpu, id)
               /\ loop' = [loop EXCEPT !.pc = "completions",
                                       !.todo = Tail(@),
                                       !.finishedSomething = TRUE,
                                       !.job = NoneVal,
                                       !.exitCode = NoneVal]
          ELSE /\ loop' = IdleLocals("crashed")
               /\ UNCHANGED <<job, runningByGpu>>
    /\ UNCHANGED <<gpuIndices, lastCall, heap, jobMap, runnerVars, lastSnapshot, policyVars,
                   stopFlag, cancel, cancels, notified, now>>

\* Whether _handlePreemption picks the job at position k of device
\* gpuIndices[i]'s running list.
IsVictim(i, k) ==
    LET g == gpuIndices[i]
        runningJobs == getRunningJobsOnGpu(runningByGpu, g)
        candidate == peekHighestPriorityQueued(heap, jobMap)
    IN /\ k <= Len(runningJobs)
       /\ job[runningJobs[k]].preemptible
       /\ candidate # NoneVal
       /\ shouldPreempt(getGpuUtil(lastSnapshot, g),
                        job[runningJobs[k]].priority,
                        job[candidate].priority)

\* The places (device position, list position) in the order the two nested
\* loops of _handlePreemption visit them.
Before(i1, k1, i2, k2) == i1 < i2 \/ (i1 = i2 /\ k1 < k2)

\* _handlePreemption up to terminateJob: the first victim found has its
\* child terminated; without a snapshot or a victim the phase returns False.
LoopPreempt(reaped) ==
    /\ loop.pc = "preemption"
    /\ LET places == {<<i, k>> \in (1..Len(gpuIndices)) \X (1..Len(job)) :
                         IsVictim(i, k)}
       IN IF ~lastSnapshot.present \/ places = {}
          THEN /\ loop' = [loop EXCEPT !.pc = "scheduling"]
               /\ UNCHANGED runnerVars
          ELSE LET first == CHOOSE p \in places :
                               \A q \in places :
                                   q = p \/ Before(p[1], p[2], q[1], q[2])
                   id == getRunningJobsOnGpu(runningByGpu,
                                             gpuIndices[first[1]])[first[2]]
               IN /\ terminateJob(job[id].pid, reaped)
                  /\ loop' = [loop EXCEPT !.pc = "pause", !.job = id]
    /\ UNCHANGED <<gpuIndices, lastCall, job, qmVars, lastSnapshot, policyVars, stopFlag, cancel, cancels,
                   notified, now>>

\* _handlePreemption after terminateJob: pause(victim) and
\* releaseJob(victim).  A refused transition ends the thread.
LoopPause ==
    /\ loop.pc = "pause"
    /\ LET id == loop.job
           r == pause(job[id], now)
       IN IF r.ok
          THEN /\ job' = [job EXCEPT ![id] = r.job]
               /\ runningByGpu' = releaseJob(runningByGpu, id)
               /\ loop' = [loop EXCEPT !.pc = "requeue"]
          ELSE /\ loop' = IdleLocals("crashed")
               /\ UNCHANGED <<job, runningByGpu>>
    /\ UNCHANGED <<gpuIndices, lastCall, heap, jobMap, runnerVars, lastSnapshot, policyVars,
                   stopFlag, cancel, cancels, notified, now>>

\* _handlePreemption's requeueJob(victim); the pass then restarts.
LoopRequeue ==
    /\ loop.pc = "requeue"
    /\ LET id == loop.job
           r == requeueJob(heap, id, job[id], now)
       IN /\ job' = [job EXCEPT ![id] = r.job]
          /\ heap' = r.heap
    /\ loop' = IdleLocals("top")
    /\ UNCHANGED <<gpuIndices, lastCall, jobMap, runningByGpu, runnerVars, lastSnapshot,
                   policyVars, stopFlag, cancel, cancels, notified, now>>

\* _handleScheduling up to startJob: findAndAssignJob and the admission
\* checks.  Without an allocation, or on a denial, the phase returns False
\* (on a denial with the allocation still in its locals).
LoopSchedule ==
    /\ loop.pc = "scheduling"
    /\ \E a \in {findAndAssignJob(gpuIndices, heap, jobMap, runningByGpu, job)} :
          /\ heap' = a.heap
          /\ runningByGpu' = a.rbg
          /\ IF a.job = NoneVal
             THEN /\ loop' = [loop EXCEPT !.pc = "endpass"]
                  /\ UNCHANGED policyVars
             ELSE LET p == IF lastSnapshot.present
                           THEN AdmitAll(a.allocated, utilHistory,
                                         cooldownUntil, lastSnapshot, now)
                           ELSE [allow |-> TRUE, hists |-> utilHistory,
                                 untils |-> cooldownUntil]
                  IN /\ utilHistory' = p.hists
                     /\ cooldownUntil' = p.untils
                     /\ IF p.allow
                        THEN loop' = [loop EXCEPT !.pc = "start",
                                                  !.job = a.job,
                                                  !.allocated = a.allocated]
                        ELSE loop' = [loop EXCEPT !.pc = "endpass",
                                                  !.job = a.job,
                                                  !.allocated = a.allocated]
    /\ UNCHANGED <<gpuIndices, lastCall, job, jobMap, runnerVars, lastSnapshot, stopFlag, cancel, cancels,
                   notified, now>>

\* _handleScheduling: runner.startJob spawns the child and start(job) makes
\* the job Running.  A refused transition ends the thread, with the child
\* already in the tables.
LoopStart ==
    /\ loop.pc = "start"
    /\ nextPid <= MaxPid
    /\ LET id == loop.job
           r == start(job[id], now)
       IN /\ processTable' = processTable \cup {nextPid}
          /\ jobByPid' = [p \in (DOMAIN jobByPid) \cup {nextPid} |->
                             IF p = nextPid THEN id ELSE jobByPid[p]]
          /\ child' = [p \in (DOMAIN child) \cup {nextPid} |->
                          IF p = nextPid THEN NoneVal ELSE child[p]]
          /\ nextPid' = nextPid + 1
          /\ IF r.ok
             THEN /\ job' = [job EXCEPT ![id] = r.job]
                  /\ loop' = [loop EXCEPT !.pc = "setPid", !.pid = nextPid]
             ELSE /\ loop' = IdleLocals("crashed")
                  /\ UNCHANGED job
    /\ UNCHANGED <<gpuIndices, lastCall, qmVars, lastSnapshot, policyVars, stopFlag, cancel, cancels,
                   notified, now>>

\* _handleScheduling: runner.startJob raises (the command cannot be
\* spawned); nothing catches it and the thread ends.
LoopSpawnFails ==
    /\ loop.pc = "start"
    /\ loop' = IdleLocals("crashed")
    /\ UNCHANGED <<gpuIndices, lastCall, job, qmVars, runnerVars, lastSnapshot, policyVars,
                   stopFlag, cancel, cancels, notified, now>>

\* _handleScheduling: job.pid = pid; job.assignedGpu = allocatedGpus[0];
\* return True
LoopSetPid ==
    /\ loop.pc = "setPid"
    /\ job' = [job EXCEPT ![loop.job].pid = loop.pid,
                          ![loop.job].assignedGpu = loop.allocated[1]]
    /\ loop' = [IdleLocals("top") EXCEPT
                   !.pc = "endpass", !.scheduled = TRUE,
                   !.finishedSomething = loop.finishedSomething]
    /\ UNCHANGED <<gpuIndices, lastCall, qmVars, runnerVars, lastSnapshot, policyVars, stopFlag,
                   cancel, cancels, notified, now>>

\* The end of a pass: wait on the condition when nothing happened.
LoopEndPass ==
    /\ loop.pc = "endpass"
    /\ IF loop.finishedSomething \/ loop.scheduled
       THEN /\ loop' = IdleLocals("top")
            /\ UNCHANGED notified
       ELSE /\ cancel.pc = "idle"
            /\ loop' = IdleLocals("waiting")
            /\ notified' = FALSE
    /\ UNCHANGED <<gpuIndices, lastCall, job, qmVars, runnerVars, lastSnapshot, policyVars,
                   stopFlag, cancel, cancels, now>>

\* wait(timeout=2.0) returns: a notify has arrived, or the timeout ran out.
LoopWake ==
    /\ loop.pc = "waiting"
    /\ cancel.pc = "idle"
    /\ loop' = IdleLocals("top")
    /\ notified' = FALSE
    /\ UNCHANGED <<gpuIndices, lastCall, job, qmVars, runnerVars, lastSnapshot, policyVars,
                   stopFlag, cancel, cancels, now>>

LoopStep ==
    \/ LoopTop
    \/ LoopPoll
    \/ LoopFinish
    \/ \E reaped \in BOOLEAN : LoopPreempt(reaped)
    \/ LoopPause
    \/ LoopRequeue
    \/ LoopSchedule
    \/ LoopStart
    \/ LoopSpawnFails
    \/ LoopSetPid
    \/ LoopEndPass
    \/ LoopWake

Next ==
    \/ \E id \in JobIds, kind \in JobKinds : SubmitJob(id, kind)
    \/ \E id \in JobIds, reaped \in BOOLEAN : CancelBegin(id, reaped)
    \/ CancelFinish
    \/ \E snap \in Snapshots : MonitorPoll(snap)
    \/ \E pid \in Pids, code \in ExitCodes : ChildExit(pid, code)
    \/ Tick
    \/ LoopStep

\* The daemon as serve.main runs it, up to the stop signal.
Spec == Init /\ [][Next]_vars

\* The daemon with its stop signal.
StopNext == Next \/ Stop
StopSpec == Init /\ [][StopNext]_vars

(***************************************************************************)
(* A core built over two devices, SchedulerCore(gpuIndices=[0, 1]), with   *)
(* submissions, cancellations and telemetry as before; the children exit   *)
(* with code 0 and the clock stands still.                                 *)
(***************************************************************************)
TwoGpuInit == InitWith(twoGpuIndices, <<>>)

TwoGpuNext ==
    \/ \E id \in JobIds, kind \in JobKinds : SubmitJob(id, kind)
    \/ \E id \in JobIds, reaped \in BOOLEAN : CancelBegin(id, reaped)
    \/ CancelFinish
    \/ \E snap \in Snapshots : MonitorPoll(snap)
    \/ \E pid \in Pids : ChildExit(pid, 0)
    \/ LoopStep

TwoGpuSpec == TwoGpuInit /\ [][TwoGpuNext]_vars

(***************************************************************************)
(* The state machine on its own: JobStateMachine.transition applied to one *)
(* job object, whatever its fields hold, with any requested status, as     *)
(* scripts/testStateMachine.py drives it.                                  *)
(***************************************************************************)
\* The job objects a caller may hand to transition.
AnyJobs ==
    {[priority |-> 10, requiredGpus |-> 1, exclusive |-> TRUE,
      preemptible |-> TRUE, maxRuntimeSeconds |-> NoneVal,
      status |-> s, createdAt |-> 0, startedAt |-> st, finishedAt |-> fi,
      assignedGpu |-> g, pid |-> p] :
        s \in Status, st \in {NoneVal, 0}, fi \in {NoneVal, 0},
        g \in {NoneVal, 0}, p \in {NoneVal} \cup Pids}

SMInit == \E j \in AnyJobs : InitWith(defaultGpuIndices, <<j>>)

\* try: JobStateMachine.transition(job, newStatus) except ValueError
SMTransition(newStatus) ==
    /\ LET r == transition(job[1], newStatus, now)
       IN /\ job' = [job EXCEPT ![1] = r.job]
          /\ lastCall' = [made |-> TRUE, before |-> job[1],
                          newStatus |-> newStatus, raised |-> ~r.ok]
    /\ UNCHANGED <<gpuIndices, qmVars, runnerVars, lastSnapshot, policyVars,
                   stopFlag, loop, cancel, cancels, notified, now>>

SMNext ==
    \/ \E newStatus \in Status : SMTransition(newStatus)
    \/ Tick

SMSpec == SMInit /\ [][SMNext]_vars

(***************************************************************************)
(* One device and three exclusive, preemptible jobs submitted in the order *)
(* priority 5, priority 1, priority 10, under a steady low utilisation;    *)
(* children exit with code 0 and the clock stands still.                   *)
(***************************************************************************)
LadderKinds ==
    <<[priority |-> 5, requiredGpus |-> 1, exclusive |-> TRUE,
       preemptible |-> TRUE, maxRuntimeSeconds |-> NoneVal],
      [priority |-> 1, requiredGpus |-> 1, exclusive |-> TRUE,
       preemptible |-> TRUE, maxRuntimeSeconds |-> NoneVal],
      [priority |-> 10, requiredGpus |-> 1, exclusive |-> TRUE,
       preemptible |-> TRUE, maxRuntimeSeconds |-> NoneVal]>>

LowSnapshot == [present |-> TRUE, util |-> [g \in GpuSet |-> 20]]

LadderNext ==
    \/ \E id \in DOMAIN LadderKinds : SubmitJob(id, LadderKinds[id])
    \/ \E id \in DOMAIN LadderKinds, reaped \in BOOLEAN :
           CancelBegin(id, reaped)
    \/ CancelFinish
    \/ MonitorPoll(LowSnapshot)
    \/ \E pid \in Pids : ChildExit(pid, 0)
    \/ LoopStep

LadderSpec == Init /\ [][LadderNext]_vars

(***************************************************************************)
(* The preemption scenario of scripts/testPreemption.py: one device, job A *)
(* (priority 10, "sleep 20") is submitted, and once it is Running job B    *)
(* (priority 1, "sleep 5") is submitted; the utilisation stays low, both   *)
(* commands can be spawned, and A's first child does not exit by itself    *)
(* within the scenario.                                                    *)
(***************************************************************************)
ScenarioA == 1
ScenarioB == 2
ScenarioKinds == <<LadderKinds[3], LadderKinds[2]>>

ScenarioSubmitA == SubmitJob(ScenarioA, ScenarioKinds[ScenarioA])

ScenarioSubmitB ==
    /\ ScenarioA \in DOMAIN job
    /\ job[ScenarioA].status = "running"
    /\ job[ScenarioA].pid # NoneVal
    /\ SubmitJob(ScenarioB, ScenarioKinds[ScenarioB])

\* The loop thread when every command can be spawned: the steps outside
\* and inside the first part of _handleScheduling.
ScenarioLoopOther ==
    \/ LoopTop
    \/ LoopPoll
    \/ LoopFinish
    \/ \E reaped \in BOOLEAN : LoopPreempt(reaped)
    \/ LoopPause
    \/ LoopRequeue
    \/ LoopStart
    \/ LoopSetPid
    \/ LoopEndPass
    \/ LoopWake

ScenarioLoopStep == ScenarioLoopOther \/ LoopSchedule

\* The loop thread keeps running: weak fairness of ScenarioLoopStep.
\* LoopSchedule is enabled exactly when loop.pc = "scheduling" and always
\* leaves that position, so its weak fairness is stated by the positions.
LoopRuns ==
    /\ WF_vars(ScenarioLoopOther)
    /\ []<>(loop.pc # "scheduling")

\* A child other than A's first one exits with code 0.
ScenarioChildExit == \E pid \in Pids \ {1} : ChildExit(pid, 0)

ScenarioNext ==
    \/ ScenarioSubmitA
    \/ ScenarioSubmitB
    \/ MonitorPoll(LowSnapshot)
    \/ ScenarioChildExit
    \/ Tick
    \/ ScenarioLoopStep

\* The loop thread and the monitor thread keep running.
ScenarioSpec ==
    /\ Init
    /\ [][ScenarioNext]_vars
    /\ LoopRuns
    /\ WF_vars(MonitorPoll(LowSnapshot))

(***************************************************************************)
(* The jobs of LadderKinds with a shutdown: stop() is called at any moment *)
(* (serve.py calls it from a signal handler), every command can be         *)
(* spawned, the loop thread keeps running and a terminateJob call made by  *)
(* cancelJob returns.                                                      *)
(***************************************************************************)
ShutdownNext ==
    \/ \E id \in DOMAIN LadderKinds : SubmitJob(id, LadderKinds[id])
    \/ \E id \in DOMAIN LadderKinds, reaped \in BOOLEAN :
           CancelBegin(id, reaped)
    \/ CancelFinish
    \/ MonitorPoll(LowSnapshot)
    \/ \E pid \in Pids : ChildExit(pid, 0)
    \/ ScenarioLoopStep
    \/ Stop

ShutdownSpec ==
    /\ Init
    /\ [][ShutdownNext]_vars
    /\ LoopRuns
    /\ WF_vars(CancelFinish)

(***************************************************************************)
(* The queue manager driven directly, as scripts/testQueueManager.py       *)
(* drives it: jobs are added, time passes ("waiting for aging to kick      *)
(* in"), allocations are attempted and released.                           *)
(***************************************************************************)
AgingMaxTime == 21
\* QueueManager(agingFactor=0.05): one priority unit per agingDivisor
\* seconds of wait.
agingDivisor == 20

AgingKinds ==
    {[priority |-> p, requiredGpus |-> 1, exclusive |-> TRUE,
      preemptible |-> TRUE, maxRuntimeSeconds |-> NoneVal] : p \in {5, 6}}

\* qm.addJob(job)
AgingAdd == \E id \in JobIds, kind \in AgingKinds : SubmitJob(id, kind)

\* time.sleep(...)
AgingWait ==
    /\ now < AgingMaxTime
    /\ now' = now + 1
    /\ UNCHANGED <<gpuIndices, lastCall, job, qmVars, runnerVars,
                   lastSnapshot, policyVars, stopFlag, loop, cancel, cancels,
                   notified>>

\* qm.findAndAssignJob(gpus)
AgingAllocate ==
    /\ \E a \in {findAndAssignJob(gpuIndices, heap, jobMap, runningByGpu,
                                  job)} :
           /\ heap' = a.heap
           /\ runningByGpu' = a.rbg
    /\ UNCHANGED <<gpuIndices, lastCall, job, jobMap, runnerVars,
                   lastSnapshot, policyVars, stopFlag, loop, cancel, cancels,
                   notified, now>>

\* qm.releaseJob(result[0])
AgingRelease ==
    /\ \E id \in Range(getRunningJobs(runningByGpu)) :
           runningByGpu' = releaseJob(runningByGpu, id)
    /\ UNCHANGED <<gpuIndices, lastCall, job, heap, jobMap, runnerVars,
                   lastSnapshot, policyVars, stopFlag, loop, cancel, cancels,
                   notified, now>>

AgingNext == AgingAdd \/ AgingWait \/ AgingAllocate \/ AgingRelease

AgingSpec == Init /\ [][AgingNext]_vars

(***************************************************************************)
(* The policy engine driven directly, as scripts/testPolicy.py drives it:  *)
(* canScheduleOnGpu is called for a device with a utilisation, and time    *)
(* passes.  lastCall records the call, its result, and for each device the *)
(* time of the last call that saw a spike (spikeSeenAt) and of the last    *)
(* call that saw a spike outside the cooldownSeconds after an earlier such *)
(* call (triggeredAt).                                                     *)
(***************************************************************************)
PolicyMaxTime == 6

SpikeSeenAt(g) == IF lastCall.made THEN lastCall.spikeSeenAt[g] ELSE NoneVal
TriggeredAt(g) == IF lastCall.made THEN lastCall.triggeredAt[g] ELSE NoneVal
\* Time t lies in the cooldownSeconds that follow time since.
Within(since, t) == since # NoneVal /\ t < since + cooldownSeconds

\* policy.canScheduleOnGpu(gpu, util)
PolicyCall(g, util) ==
    /\ LET r == canScheduleOnGpu(utilHistory[g], cooldownUntil[g], util,
                                  NoneVal, now)
           spike == detectSpike(r.hist)
       IN /\ utilHistory' = [utilHistory EXCEPT ![g] = r.hist]
          /\ cooldownUntil' = [cooldownUntil EXCEPT ![g] = r.until]
          /\ lastCall' =
                 [made |-> TRUE, gpu |-> g, allow |-> r.allow,
                  spikeSeenAt |->
                      [h \in GpuSet |->
                          IF h = g /\ spike THEN now ELSE SpikeSeenAt(h)],
                  triggeredAt |->
                      [h \in GpuSet |->
                          IF h = g /\ spike /\ ~Within(TriggeredAt(h), now)
                          THEN now ELSE TriggeredAt(h)]]
    /\ UNCHANGED <<gpuIndices, job, qmVars, runnerVars, lastSnapshot,
                   stopFlag, loop, cancel, cancels, notified, now>>

\* time.sleep(...)
PolicyWait ==
    /\ now < PolicyMaxTime
    /\ now' = now + 1
    /\ UNCHANGED <<gpuIndices, lastCall, job, qmVars, runnerVars,
                   lastSnapshot, policyVars, stopFlag, loop, cancel, cancels,
                   notified>>

\* The utilisations the calls for device g are given: any for the first
\* device, an idle one for the others.
PolicyUtils(g) == IF g = gpuIndices[1] THEN UtilValues ELSE {20}

PolicyNext ==
    \/ \E g \in GpuSet : \E util \in PolicyUtils(g) : PolicyCall(g, util)
    \/ PolicyWait

PolicySpec == TwoGpuInit /\ [][PolicyNext]_vars

(***************************************************************************)
(* The admission decision on one device with all three of its arguments:   *)
(* canScheduleOnGpu(gpu, util, memUtil) is called with moderate and high   *)
(* utilisations, with and without a memory utilisation, and time passes.   *)
(* lastCall records the arguments and the result of the call.              *)
(***************************************************************************)
AdmissionUtils == {50, 70, 95}
AdmissionMemUtils == {NoneVal, 50, 90}

\* policy.canScheduleOnGpu(gpu, util, memUtil)
AdmissionCall(util, memUtil) ==
    /\ LET g == gpuIndices[1]
           r == canScheduleOnGpu(utilHistory[g], cooldownUntil[g], util,
                                 memUtil, now)
       IN /\ utilHistory' = [utilHistory EXCEPT ![g] = r.hist]
          /\ cooldownUntil' = [cooldownUntil EXCEPT ![g] = r.until]
          /\ lastCall' = [made |-> TRUE, gpu |-> g, util |-> util,
                          memUtil |-> memUtil, allow |-> r.allow]
    /\ UNCHANGED <<gpuIndices, job, qmVars, runnerVars, lastSnapshot,
                   stopFlag, loop, cancel, cancels, notified, now>>

AdmissionNext ==
    \/ \E util \in AdmissionUtils, memUtil \in AdmissionMemUtils :
           AdmissionCall(util, memUtil)
    \/ PolicyWait

AdmissionSpec == Init /\ [][AdmissionNext]_vars

(***************************************************************************)
(* The process supervisor driven directly, as scripts/testRunner.py drives *)
(* it: children are started and terminateJob(pid) is called, here followed *)
(* poll by poll.  A child exits when it chooses to, signalled or not (it   *)
(* may ignore SIGTERM, and may outlive SIGKILL for a while).  lastCall is  *)
(* the frame of the terminateJob call: its position, the signals sent so   *)
(* far, the sleeps of each wait loop, and the value returned.              *)
(***************************************************************************)
\* The polls of the two wait loops: timeout / 0.25 and 2.0 / 0.25.
termPolls == 20
killPolls == 8

\* No terminateJob call is in progress.
NoTerminate == lastCall.made => lastCall.pc = "returned"

\* return <result> from terminateJob
TerminateReturn(result) == [lastCall EXCEPT !.pc = "returned", !.result = result]

\* runner.startJob(job, gpuIndex=0) for a new job.
RunnerStartJob ==
    /\ NoTerminate
    /\ nextPid <= MaxPid
    /\ LET id == Len(job) + 1
       IN /\ job' = Append(job, NewJob(LadderKinds[1], now))
          /\ processTable' = processTable \cup {nextPid}
          /\ jobByPid' = [p \in (DOMAIN jobByPid) \cup {nextPid} |->
                             IF p = nextPid THEN id ELSE jobByPid[p]]
          /\ child' = [p \in (DOMAIN child) \cup {nextPid} |->
                          IF p = nextPid THEN NoneVal ELSE child[p]]
          /\ nextPid' = nextPid + 1
    /\ UNCHANGED <<gpuIndices, lastCall, qmVars, lastSnapshot, policyVars,
                   stopFlag, loop, cancel, cancels, notified, now>>

\* runner.terminateJob(pid) up to the first poll: the membership test and
\* SIGTERM.
TerminateBegin(pid) ==
    /\ NoTerminate
    /\ lastCall' =
           IF pid \notin processTable
           THEN [made |-> TRUE, pid |-> pid, managed |-> FALSE,
                 pc |-> "returned", signals |-> <<>>, termWaited |-> 0,
                 killWaited |-> 0, result |-> NoneVal]
           ELSE [made |-> TRUE, pid |-> pid, managed |-> TRUE,
                 pc |-> "termwait", signals |-> <<"SIGTERM">>,
                 termWaited |-> 0, killWaited |-> 0, result |-> NoneVal]
    /\ UNCHANGED <<gpuIndices, job, qmVars, runnerVars, lastSnapshot,
                   policyVars, stopFlag, loop, cancel, cancels, notified,
                   now>>

\* One iteration of the first wait loop: pollJob, then _cleanup and return,
\* or sleep.
TerminateTermPoll ==
    /\ lastCall.made
    /\ lastCall.pc = "termwait"
    /\ LET pid == lastCall.pid
           code == pollJob(pid)
       IN IF code # NoneVal
          THEN /\ processTable' = cleanupTable(processTable, pid)
               /\ jobByPid' = cleanupJobs(jobByPid, pid)
               /\ lastCall' = TerminateReturn(code)
          ELSE /\ UNCHANGED <<processTable, jobByPid>>
               /\ lastCall' =
                      [lastCall EXCEPT
                          !.termWaited = @ + 1,
                          !.pc = IF lastCall.termWaited + 1 < termPolls
                                 THEN "termwait" ELSE "kill"]
    /\ UNCHANGED <<gpuIndices, job, qmVars, child, nextPid, lastSnapshot,
                   policyVars, stopFlag, loop, cancel, cancels, notified,
                   now>>

\* sendSignal(pid, signal.SIGKILL)
TerminateKill ==
    /\ lastCall.made
    /\ lastCall.pc = "kill"
    /\ lastCall' = [lastCall EXCEPT !.pc = "killwait",
                                    !.signals = Append(@, "SIGKILL")]
    /\ UNCHANGED <<gpuIndices, job, qmVars, runnerVars, lastSnapshot,
                   policyVars, stopFlag, loop, cancel, cancels, notified,
                   now>>

\* One iteration of the second wait loop; after the last one terminateJob
\* returns None.
TerminateKillPoll ==
    /\ lastCall.made
    /\ lastCall.pc = "killwait"
    /\ LET pid == lastCall.pid
           code == pollJob(pid)
       IN IF code # NoneVal
          THEN /\ processTable' = cleanupTable(processTable, pid)
               /\ jobByPid' = cleanupJobs(jobByPid, pid)
               /\ lastCall' = TerminateReturn(code)
          ELSE /\ UNCHANGED <<processTable, jobByPid>>
               /\ lastCall' =
                      IF lastCall.killWaited + 1 < killPolls
                      THEN [lastCall EXCEPT !.killWaited = @ + 1]
                      ELSE [TerminateReturn(NoneVal) EXCEPT
                               !.killWaited = @ + 1]
    /\ UNCHANGED <<gpuIndices, job, qmVars, child, nextPid, lastSnapshot,
                   policyVars, stopFlag, loop, cancel, cancels, notified,
                   now>>

RunnerNext ==
    \/ RunnerStartJob
    \/ \E pid \in Pids : TerminateBegin(pid)
    \/ TerminateTermPoll
    \/ TerminateKill
    \/ TerminateKillPoll
    \/ \E pid \in Pids, code \in ExitCodes : ChildExit(pid, code)

RunnerSpec == Init /\ [][RunnerNext]_vars

(***************************************************************************)
(* The queue manager's lock.  Two threads call a queue manager built over  *)
(* two devices: a writer (the loop thread: findAndAssignJob, releaseJob)   *)
(* and the sweep thread of serve.main (submitJob -> addJob, and            *)
(* writeStateSnapshot -> getQueuedJobs, getRunningJobs).  An operation     *)
(* that is written as "with self._lock:" starts only when the lock is free *)
(* and keeps it until it returns; the loops of findAndAssignJob and        *)
(* releaseJob over the devices and the loop of getRunningJobs over the     *)
(* running map are followed device by device.  lastCall holds the lock's   *)
(* owner and the frames of the two threads.                                *)
(***************************************************************************)
\* The lock is free and neither thread is inside an operation.
QmIdle ==
    [made |-> TRUE, owner |-> "none", op |-> "none", job |-> NoneVal,
     todo |-> <<>>, reading |-> FALSE, pos |-> 0, size |-> 0, seen |-> <<>>,
     result |-> <<>>, raised |-> FALSE]

Qm == IF lastCall.made THEN lastCall ELSE QmIdle

RECURSIVE ReleaseOn(_, _, _)
\* One iteration of releaseJob's loop, for device g.
ReleaseOn(rbg, g, id) ==
    IF rbg = <<>> THEN <<>>
    ELSE LET e == Head(rbg)
             js == RemoveFirst(e.jobs, id)
         IN (IF e.gpu # g THEN <<e>>
             ELSE IF js = <<>> THEN <<>> ELSE <<[e EXCEPT !.jobs = js]>>)
            \o ReleaseOn(Tail(rbg), g, id)

\* The keys of the running map in dict order.
RunningKeys(rbg) == [i \in 1..Len(rbg) |-> rbg[i].gpu]

\* core.submitJob(job) on the sweep thread: addJob under the lock.
QmAdd ==
    /\ Qm.owner = "none"
    /\ ~Qm.reading
    /\ \E id \in JobIds, kind \in JobKinds : SubmitJob(id, kind)

\* findAndAssignJob on the writer thread: the lock is taken, a job is
\* selected and appended to the first allocated device.
QmAssignBegin ==
    /\ Qm.owner = "none"
    /\ Qm.op = "none"
    /\ \E a \in {findAndAssignJob(gpuIndices, heap, jobMap, runningByGpu,
                                  job)} :
           /\ a.job # NoneVal
           /\ runningByGpu' = AppendRunning(runningByGpu, a.allocated[1],
                                            a.job)
           /\ lastCall' = [Qm EXCEPT !.owner = "writer", !.op = "assign",
                                     !.job = a.job,
                                     !.todo = Tail(a.allocated)]
    /\ UNCHANGED <<gpuIndices, job, heap, jobMap, runnerVars, lastSnapshot,
                   policyVars, stopFlag, loop, cancel, cancels, notified,
                   now>>

\* findAndAssignJob: the next allocated device, or the removal from the
\* heap and the return, which frees the lock.
QmAssignStep ==
    /\ Qm.op = "assign"
    /\ IF Qm.todo # <<>>
       THEN /\ runningByGpu' = AppendRunning(runningByGpu, Head(Qm.todo),
                                             Qm.job)
            /\ lastCall' = [Qm EXCEPT !.todo = Tail(@)]
            /\ UNCHANGED heap
       ELSE /\ heap' = heapify(DropHeapId(heap, Qm.job))
            /\ lastCall' = [Qm EXCEPT !.owner = "none", !.op = "none",
                                      !.job = NoneVal]
            /\ UNCHANGED runningByGpu
    /\ UNCHANGED <<gpuIndices, job, jobMap, runnerVars, lastSnapshot,
                   policyVars, stopFlag, loop, cancel, cancels, notified,
                   now>>

\* releaseJob(job) on the writer thread: the lock is taken and the items of
\* the running map are listed.
QmReleaseBegin(id) ==
    /\ Qm.owner = "none"
    /\ Qm.op = "none"
    /\ id \in Range(getRunningJobs(runningByGpu))
    /\ lastCall' = [Qm EXCEPT !.owner = "writer", !.op = "release",
                              !.job = id,
                              !.todo = RunningKeys(runningByGpu)]
    /\ UNCHANGED <<gpuIndices, job, qmVars, runnerVars, lastSnapshot,
                   policyVars, stopFlag, loop, cancel, cancels, notified,
                   now>>

\* releaseJob: the next device of the list, or the return.
QmReleaseStep ==
    /\ Qm.op = "release"
    /\ IF Qm.todo # <<>>
       THEN /\ runningByGpu' = ReleaseOn(runningByGpu, Head(Qm.todo), Qm.job)
            /\ lastCall' = [Qm EXCEPT !.todo = Tail(@)]
       ELSE /\ lastCall' = [Qm EXCEPT !.owner = "none", !.op = "none",
                                      !.job = NoneVal]
            /\ UNCHANGED runningByGpu
    /\ UNCHANGED <<gpuIndices, job, heap, jobMap, runnerVars, lastSnapshot,
                   policyVars, stopFlag, loop, cancel, cancels, notified,
                   now>>

\* writeStateSnapshot: getQueuedJobs(), under the lock.
QmGetQueued ==
    /\ Qm.owner = "none"
    /\ ~Qm.reading
    /\ lastCall' = [Qm EXCEPT !.result = getQueuedJobs(heap, jobMap, job),
                              !.raised = FALSE]
    /\ UNCHANGED <<gpuIndices, job, qmVars, runnerVars, lastSnapshot,
                   policyVars, stopFlag, loop, cancel, cancels, notified,
                   now>>

\* writeStateSnapshot: getRunningJobs() starts to iterate over the running
\* map; the method takes no lock.
QmGetRunningBegin ==
    /\ ~Qm.reading
    /\ lastCall' = [Qm EXCEPT !.reading = TRUE, !.pos = 1,
                              !.size = Len(runningByGpu), !.seen = <<>>,
                              !.result = <<>>, !.raised = FALSE]
    /\ UNCHANGED <<gpuIndices, job, qmVars, runnerVars, lastSnapshot,
                   policyVars, stopFlag, loop, cancel, cancels, notified,
                   now>>

\* getRunningJobs: the next value of the dict iterator (which raises
\* RuntimeError when the dict has changed size), or the return.
QmGetRunningStep ==
    /\ Qm.reading
    /\ lastCall' =
           IF Len(runningByGpu) # Qm.size
           THEN [Qm EXCEPT !.reading = FALSE, !.pos = 0, !.size = 0,
                           !.seen = <<>>, !.raised = TRUE]
           ELSE IF Qm.pos <= Len(runningByGpu)
           THEN [Qm EXCEPT !.pos = @ + 1,
                           !.seen = @ \o runningByGpu[Qm.pos].jobs]
           ELSE [Qm EXCEPT !.reading = FALSE, !.pos = 0, !.size = 0,
                           !.seen = <<>>, !.result = Dedup(Qm.seen, {})]
    /\ UNCHANGED <<gpuIndices, job, qmVars, runnerVars, lastSnapshot,
                   policyVars, stopFlag, loop, cancel, cancels, notified,
                   now>>

QmNext ==
    \/ QmAdd
    \/ QmAssignBegin
    \/ QmAssignStep
    \/ \E id \in JobIds : QmReleaseBegin(id)
    \/ QmReleaseStep
    \/ QmGetQueued
    \/ QmGetRunningBegin
    \/ QmGetRunningStep

QmSpec == TwoGpuInit /\ [][QmNext]_vars

(***************************************************************************)
(* The monitor's lifecycle (daemon/monitor.py), as scripts/testMonitor.py  *)
(* and SchedulerCore.run drive it: one caller makes start() and stop()     *)
(* calls in any order; each polling thread alternates between a probe      *)
(* (getGpuStatsSnapshot, which may take longer than stop's join timeout)   *)
(* and its sleep, during which it looks at the stop event.  lastCall holds *)
(* Monitor._stopEvent, Monitor._thread, the polling threads that are alive *)
(* with their positions, and the caller's position.                        *)
(***************************************************************************)
\* Monitor.__init__: no thread, the event not set.
MonitorNew ==
    [made |-> TRUE, stopEvent |-> FALSE, thread |-> NoneVal,
     workers |-> <<>>, created |-> 0, caller |-> "idle", op |-> "init"]

Mon == IF lastCall.made THEN lastCall ELSE MonitorNew

\* threading.Thread.is_alive() for the thread with identifier id.
IsAlive(id) == id \in DOMAIN Mon.workers

\* Monitor.start()
MonitorStart ==
    /\ Mon.caller = "idle"
    /\ IF Mon.thread # NoneVal /\ IsAlive(Mon.thread)
       THEN lastCall' = [Mon EXCEPT !.op = "start"]
       ELSE /\ Mon.created < MaxThreads
            /\ LET id == Mon.created + 1
               IN lastCall' =
                      [Mon EXCEPT
                          !.op = "start",
                          !.stopEvent = FALSE,
                          !.thread = id,
                          !.created = id,
                          !.workers = [w \in (DOMAIN Mon.workers) \cup {id}
                                          |-> IF w = id THEN "probe"
                                              ELSE Mon.workers[w]]]
    /\ UNCHANGED <<gpuIndices, job, qmVars, runnerVars, lastSnapshot,
                   policyVars, stopFlag, loop, cancel, cancels, notified,
                   now>>

\* Monitor.stop(): the event is set; with a thread, join(timeout) follows.
MonitorStop ==
    /\ Mon.caller = "idle"
    /\ lastCall' = [Mon EXCEPT !.op = "stop", !.stopEvent = TRUE,
                               !.caller = IF Mon.thread # NoneVal
                                          THEN "joining" ELSE "idle"]
    /\ UNCHANGED <<gpuIndices, job, qmVars, runnerVars, lastSnapshot,
                   policyVars, stopFlag, loop, cancel, cancels, notified,
                   now>>

\* Monitor.stop(): join returns, because the thread has ended or because
\* the timeout ran out while the thread was inside a probe, and
\* self._thread = None.
MonitorJoinReturns ==
    /\ Mon.caller = "joining"
    /\ IF IsAlive(Mon.thread) THEN Mon.workers[Mon.thread] = "probe"
       ELSE TRUE
    /\ lastCall' = [Mon EXCEPT !.caller = "idle", !.thread = NoneVal]
    /\ UNCHANGED <<gpuIndices, job, qmVars, runnerVars, lastSnapshot,
                   policyVars, stopFlag, loop, cancel, cancels, notified,
                   now>>

\* Monitor._loop of thread id: the probe returns, the snapshot is stored
\* and handed to the callback, and the sleep begins.
WorkerProbed(id, snap) ==
    /\ IsAlive(id)
    /\ Mon.workers[id] = "probe"
    /\ lastSnapshot' = snap
    /\ lastCall' = [Mon EXCEPT !.workers[id] = "sleep"]
    /\ UNCHANGED <<gpuIndices, job, qmVars, runnerVars, policyVars, stopFlag,
                   loop, cancel, cancels, notified, now>>

\* Monitor._loop of thread id: the sleep ends; the thread ends when the
\* stop event is set and probes again otherwise.
WorkerSlept(id) ==
    /\ IsAlive(id)
    /\ Mon.workers[id] = "sleep"
    /\ lastCall' =
           IF Mon.stopEvent
           THEN [Mon EXCEPT !.workers = [w \in (DOMAIN Mon.workers) \ {id}
                                            |-> Mon.workers[w]]]
           ELSE [Mon EXCEPT !.workers[id] = "probe"]
    /\ UNCHANGED <<gpuIndices, job, qmVars, runnerVars, lastSnapshot,
                   policyVars, stopFlag, loop, cancel, cancels, notified,
                   now>>

MonitorNext ==
    \/ MonitorStart
    \/ MonitorStop
    \/ MonitorJoinReturns
    \/ \E id \in 1..MaxThreads, snap \in Snapshots : WorkerProbed(id, snap)
    \/ \E id \in 1..MaxThreads : WorkerSlept(id)

MonitorSpec == Init /\ [][MonitorNext]_vars

(***************************************************************************)
(* Properties.                                                             *)
(***************************************************************************)
\* The legal-transition table as the specification states it.
LegalEdges ==
    {<<"queued", "running">>, <<"queued", "cancelled">>,
     <<"running", "paused">>, <<"running", "finished">>,
     <<"running", "failed">>, <<"running", "cancelled">>,
     <<"paused", "running">>, <<"paused", "cancelled">>}

\* Job id has an entry on the priority heap.
InHeap(id) == \E i \in 1..Len(heap) : heap[i][3] = id
\* Job id is on the running list of device g / of some device.
OnGpu(g, id) == id \in Range(RunningOn(runningByGpu, g))
InRunningMap(id) == \E g \in GpuSet : OnGpu(g, id)
\* Device g holds no exclusive job, and the configured devices that do not,
\* in configuration order.
NoExclusiveOn(g) ==
    \A id \in Range(RunningOn(runningByGpu, g)) : ~job[id].exclusive
FreeList == SelectSeq(gpuIndices, NoExclusiveOn)
\* The ordering key of a job.
Key(id) == <<job[id].priority, job[id].createdAt, id>>
\* The loop thread is between two passes and no cancel is under way.
Quiescent == loop.pc \in {"top", "waiting"} /\ cancel.pc = "idle"
\* The step on which findAndAssign and the admission checks run.
ScheduleStep == loop.pc = "scheduling" /\ loop'.pc # "scheduling"

\* C1: every change of a job's status in the running system is an edge of
\* the legal-transition table; in particular no queue-manager operation
\* changes a status by itself.
C1_StatusChangesAreLegalEdges ==
    [][\A id \in DOMAIN job :
          job'[id].status # job[id].status
              => <<job[id].status, job'[id].status>> \in LegalEdges]_vars

\* C2: transition(job, s) with s outside the allowed set of job.status
\* raises and leaves status, startedAt, finishedAt, pid and assignedGpu as
\* they were; every request on a Finished, Failed or Cancelled job raises.
C2_IllegalTransitionRaisesAndKeepsJob ==
    lastCall.made =>
        /\ <<lastCall.before.status, lastCall.newStatus>> \notin LegalEdges
              => /\ lastCall.raised
                 /\ job[1].status = lastCall.before.status
                 /\ job[1].startedAt = lastCall.before.startedAt
                 /\ job[1].finishedAt = lastCall.before.finishedAt
                 /\ job[1].pid = lastCall.before.pid
                 /\ job[1].assignedGpu = lastCall.before.assignedGpu
        /\ lastCall.before.status \in Terminal => lastCall.raised

\* A request on a terminal job has been made and has raised.
C2_Witness ==
    /\ lastCall.made
    /\ lastCall.before.status \in Terminal
    /\ lastCall.raised

\* C3: in every reachable state every Running job has a pid, a startedAt and
\* an assignedGpu that is a configured device on whose running list it is.
C3_RunningHasPidStartAndGpu ==
    \A id \in DOMAIN job :
        job[id].status = "running"
            => /\ job[id].pid # NoneVal
               /\ job[id].startedAt # NoneVal
               /\ job[id].assignedGpu \in GpuSet
               /\ OnGpu(job[id].assignedGpu, id)

\* C4: in every reachable state every Finished, Failed or Cancelled job has
\* no pid, no assignedGpu, a finishedAt, and finishedAt >= startedAt when it
\* was ever started.
C4_TerminalJobIsCleared ==
    \A id \in DOMAIN job :
        job[id].status \in Terminal
            => /\ job[id].pid = NoneVal
               /\ job[id].assignedGpu = NoneVal
               /\ job[id].finishedAt # NoneVal
               /\ job[id].startedAt # NoneVal
                     => job[id].finishedAt >= job[id].startedAt

\* C5: between passes every job is in the place that matches its status: on
\* the heap iff Queued, in the running map iff Running or Paused (hence in
\* neither iff terminal).
C5_ExactlyOnePlace ==
    Quiescent =>
        \A id \in DOMAIN job :
            /\ InHeap(id) <=> job[id].status = "queued"
            /\ InRunningMap(id) <=> job[id].status \in {"running", "paused"}

\* C6: in every reachable state the running list of every device is a
\* single exclusive job or holds non-exclusive jobs only.
C6_DeviceExclusivity ==
    \A g \in GpuSet :
        \/ NoExclusiveOn(g)
        \/ Len(RunningOn(runningByGpu, g)) = 1

\* C7: a job returned by findAndAssign has the least key (priority,
\* createdAt, id) among the jobs that are Queued at that instant and need
\* no more devices than are free.
C7_ReturnsLeastFittingQueuedJob ==
    [][ScheduleStep /\ loop'.job # NoneVal
          => \A other \in DOMAIN job :
                 /\ other # loop'.job
                 /\ job[other].status = "queued"
                 /\ job[other].requiredGpus <= Len(FreeList)
                 => TupleLess(Key(loop'.job), Key(other))]_vars

\* The Queued jobs of the heap that fit the free devices.
Fitting ==
    {id \in jobMap : /\ InHeap(id)
                     /\ job[id].status = "queued"
                     /\ job[id].requiredGpus <= Len(FreeList)}

\* C8: a successful findAndAssign appends the selected job to exactly its
\* requiredGpus devices, the first ones of the free list (pairwise distinct,
\* configured, free before the call) and to no other, and removes it from
\* the heap; with an empty heap, no free device or no fitting Queued job it
\* returns none and leaves heap, index and running map as they were.
C8_FindAndAssignFrame ==
    [][ScheduleStep =>
          IF heap = <<>> \/ FreeList = <<>> \/ Fitting = {}
          THEN /\ loop'.job = NoneVal
               /\ heap' = heap
               /\ jobMap' = jobMap
               /\ runningByGpu' = runningByGpu
          ELSE LET id == loop'.job
                   devs == loop'.allocated
               IN /\ id \in Fitting
                  /\ Len(devs) = job[id].requiredGpus
                  /\ devs = SubSeq(FreeList, 1, Len(devs))
                  /\ \A i, k \in 1..Len(devs) : i # k => devs[i] # devs[k]
                  /\ Range(devs) \subseteq GpuSet
                  /\ \A g \in GpuSet :
                         RunningOn(runningByGpu', g) =
                             IF g \in Range(devs)
                             THEN Append(RunningOn(runningByGpu, g), id)
                             ELSE RunningOn(runningByGpu, g)
                  /\ \A i \in 1..Len(heap') : heap'[i][3] # id
                  /\ Range(heap') = {e \in Range(heap) : e[3] # id}
                  /\ Len(heap') = Len(heap) - 1
                  /\ jobMap' = jobMap]_vars

\* A job that needs two devices has just been given both.
C8_Witness ==
    /\ loop.pc = "start"
    /\ loop.allocated = <<0, 1>>
    /\ job[loop.job].requiredGpus = 2
    /\ OnGpu(0, loop.job) /\ OnGpu(1, loop.job)
    /\ ~InHeap(loop.job)

\* C9: when the completions phase handles a Running job whose child has
\* exited, the job becomes Finished on exit code 0 and Failed otherwise,
\* and it leaves every running list.
C9_ExitCodeDecidesOutcome ==
    [][/\ loop.pc = "finish"
       /\ loop'.pc # "finish"
       /\ job[loop.job].status = "running"
       => /\ job'[loop.job].status =
                 (IF loop.exitCode = 0 THEN "finished" ELSE "failed")
          /\ \A g \in GpuSet :
                 loop.job \notin Range(RunningOn(runningByGpu', g))]_vars

\* The completions phase is looking at a Running job that is past its
\* deadline and whose child is still alive.
OverdueAtHead ==
    /\ loop.pc = "completions"
    /\ loop.todo # <<>>
    /\ LET j == job[Head(loop.todo)]
       IN /\ j.status = "running"
          /\ j.maxRuntimeSeconds # NoneVal
          /\ j.startedAt # NoneVal
          /\ now >= j.startedAt + j.maxRuntimeSeconds
          /\ j.pid \in DOMAIN child
          /\ child[j.pid] = NoneVal

\* C10: a completions phase does not move past a Running job whose deadline
\* has passed with its child alive unless the job is Failed and off every
\* running list.
C10_WatchdogFailsOverdueJob ==
    [][OverdueAtHead /\ loop' # loop
          => /\ job'[Head(loop.todo)].status = "failed"
             /\ \A g \in GpuSet :
                    Head(loop.todo) \notin Range(RunningOn(runningByGpu', g))]_vars

\* The step on which the preemption phase picks a victim and terminates its
\* child.
PreemptStep == loop.pc = "preemption" /\ loop'.pc = "pause"
\* The jobs whose status is Queued, and the one of them with the least key.
QueuedJobs == {id \in DOMAIN job : job[id].status = "queued"}
TopQueued ==
    {c \in QueuedJobs :
        \A d \in QueuedJobs : d = c \/ TupleLess(Key(c), Key(d))}

\* C11: the core picks a victim v on a device only if v is preemptible, the
\* top-priority Queued job has a strictly smaller priority value than v and
\* the last snapshot reports at most 90 for the device; a job that is not
\* preemptible never goes Running -> Paused.
C11_PreemptionConditions ==
    [][/\ PreemptStep =>
              LET v == loop'.job
              IN /\ job[v].preemptible
                 /\ \E c \in TopQueued : job[c].priority < job[v].priority
                 /\ lastSnapshot.present
                 /\ \E g \in GpuSet :
                        OnGpu(g, v) /\ lastSnapshot.util[g] <= preemptUtilLimit
       /\ \A id \in DOMAIN job :
              job[id].status = "running" /\ job'[id].status = "paused"
                  => job[id].preemptible]_vars

\* The loop thread takes a step.
LoopMoves == loop' # loop

\* C12: once the loop has terminated a victim's child, its next two steps
\* complete the preemption and nothing else: the victim goes Running ->
\* Paused and leaves every running list, then it is Queued on the heap with
\* createdAt set to the time of the preemption and the pass restarts from
\* the top; the heap is not popped (no findAndAssignJob) in between.
C12_PreemptionRunsToRequeue ==
    [][/\ loop.pc = "pause" /\ LoopMoves
              => /\ loop'.pc = "requeue"
                 /\ loop'.job = loop.job
                 /\ job[loop.job].status = "running"
                 /\ job'[loop.job].status = "paused"
                 /\ \A g \in GpuSet : ~OnGpu(g, loop.job)'
                 /\ heap' = heap
       /\ loop.pc = "requeue" /\ LoopMoves
              => /\ loop'.pc = "top"
                 /\ job'[loop.job].status = "queued"
                 /\ job'[loop.job].createdAt = now
                 /\ InHeap(loop.job)'
                 /\ \A g \in GpuSet : ~OnGpu(g, loop.job)']_vars

\* B has been submitted while A was Running with its first child.
BWaitsBehindA ==
    /\ ScenarioB \in DOMAIN job
    /\ job[ScenarioB].status = "queued"
    /\ InHeap(ScenarioB)
    /\ job[ScenarioA].status = "running"
    /\ job[ScenarioA].pid = 1
\* A has been preempted (B exists, so A has been Running) and is back on the
\* heap.
ARequeued ==
    /\ ScenarioB \in DOMAIN job
    /\ job[ScenarioA].status = "queued"
    /\ InHeap(ScenarioA)
    /\ ~InRunningMap(ScenarioA)
\* B's child has exited.
BChildExited ==
    /\ ScenarioB \in DOMAIN job
    /\ job[ScenarioB].pid \in DOMAIN child
    /\ child[job[ScenarioB].pid] # NoneVal
\* A is Running with a child that is not its first one.
ARunsAgain ==
    /\ ScenarioA \in DOMAIN job
    /\ job[ScenarioA].status = "running"
    /\ job[ScenarioA].pid \in Pids \ {1}
    /\ OnGpu(defaultGpuIndices[1], ScenarioA)

\* B has left the heap: it is Running or has run.
BHasStarted ==
    /\ ScenarioB \in DOMAIN job
    /\ job[ScenarioB].status \in {"running", "finished"}

\* C13: in the preemption scenario, A (priority 10) Running and B
\* (priority 1) submitted leads to A preempted and requeued; B is the next
\* job to become Running (A does not run again before B has started, and B
\* does start); and the exit of B's child leads to A Running again with a
\* new child.
C13_PreemptionScenario ==
    /\ BWaitsBehindA ~> ARequeued
    /\ ARequeued ~> BHasStarted
    /\ [](ARunsAgain => BHasStarted)
    /\ BChildExited ~> ARunsAgain

\* B has finished and A runs for the second time, with the third child.
C13_Witness ==
    /\ ScenarioB \in DOMAIN job
    /\ job[ScenarioB].status = "finished"
    /\ ARunsAgain
    /\ job[ScenarioA].createdAt = MaxTime

\* cancelJob returns on this step, for the job cancel'.job.
CancelReturns ==
    /\ cancel'.pc = "idle"
    /\ cancels' # cancels \/ cancel.pc = "terminated"

\* C14: on the step on which cancelJob(id) returns true, the job is
\* Cancelled and is neither in the heap nor on any device's running list.
C14_CancelledJobIsNowhere ==
    [][\A id \in DOMAIN job :
           CancelReturns /\ cancel'.job = id /\ cancel'.result = "true"
               => /\ job'[id].status = "cancelled"
                  /\ ~InHeap(id)'
                  /\ ~InRunningMap(id)']_vars

\* cancelJob(id) is called on this step.
CancelCalled(id) == cancels' # cancels /\ cancel'.job = id
\* Job id is in the heap as Queued or in the running map.
Cancellable(id) ==
    /\ id \in DOMAIN job
    /\ (InHeap(id) /\ job[id].status = "queued") \/ InRunningMap(id)
\* The state of the jobs, the queue manager and the runner.
cancelFrame == <<job, heap, jobMap, runningByGpu, processTable, jobByPid, child>>

\* C15: a call cancelJob(id) returns true if the job is at that moment in
\* the heap as Queued or in the running map, and false otherwise; for an
\* unknown id or a job that is Finished, Failed or Cancelled it returns
\* false, and a call that returns false changes no job, heap, running-map
\* or process-table state.
C15_CancelReturnsWhetherFound ==
    [][/\ \A id \in JobIds :
              CancelCalled(id) =>
                  /\ Cancellable(id) =>
                         cancel'.pc = "terminated" \/ cancel'.result = "true"
                  /\ ~Cancellable(id) =>
                         cancel'.pc = "idle" /\ cancel'.result = "false"
                  /\ id \notin DOMAIN job \/ job[id].status \in Terminal
                         => /\ cancel'.pc = "idle"
                            /\ cancel'.result = "false"
       /\ cancel.pc = "terminated" /\ CancelReturns
              => cancel'.result = "true"
       /\ CancelReturns /\ cancel'.result = "false"
              => UNCHANGED cancelFrame]_vars

\* A scheduling phase run now would allocate a job.
Schedulable ==
    findAndAssignJob(gpuIndices, heap, jobMap, runningByGpu, job).job
        # NoneVal
\* The loop thread is inside wait(timeout=2.0) and no notify has reached it:
\* only the timeout ends the wait.
SleepsOutTimeout == loop.pc = "waiting" /\ ~notified

\* C16: no wake-up is lost: the loop thread never sleeps in wait() without
\* a notify while the heap holds a job that a scheduling phase would
\* allocate; a job submitted between the scheduling phase and the wait is
\* seen by a scheduling phase before the loop sleeps.
C16_NoLostWakeup == SleepsOutTimeout => ~Schedulable

\* The loop thread is about to spawn a child and the model's process
\* identifiers are used up.
PidsExhausted == loop.pc = "start" /\ nextPid > MaxPid

\* C17: once stop() has been called, run() eventually returns (within the
\* model's supply of process identifiers), and a pass that begins with the
\* flag set ends run() at its stop test, so that it starts no job.
C17_StopEndsRun ==
    /\ stopFlag ~> (loop.pc = "stopped" \/ PidsExhausted)
    /\ [][stopFlag /\ loop.pc = "top" /\ LoopMoves
             => loop'.pc = "stopped"]_vars

\* The effective priority of job id at time t, in units of 1/agingDivisor:
\* priority - waitedSeconds * agingFactor.
EffectivePriority(id, t) ==
    agingDivisor * job[id].priority - (t - job[id].createdAt)
\* findAndAssignJob selects job id on this step.
Selected(id) == InHeap(id) /\ ~InRunningMap(id) /\ InRunningMap(id)'

\* C18: an allocation attempt selects by effective priority (priority -
\* waitedSeconds * agingFactor, computed at the attempt): the job it selects
\* is not outranked by another Queued job of the heap that fits the free
\* devices, so a job that has waited long enough goes ahead of a
\* later-submitted job with a better nominal priority.
C18_SelectsByAgedPriority ==
    [][\A s, w \in DOMAIN job :
           /\ Selected(s)
           /\ InHeap(w)
           /\ job[w].status = "queued"
           /\ job[w].requiredGpus <= Len(FreeList)
           => EffectivePriority(s, now) <= EffectivePriority(w, now)]_vars

\* The monitor's callback notifies the waiting loop thread on this step: the
\* only step that sets notified and leaves the jobs, the cancel call, the
\* stop flag and the loop thread as they are.
MonitorCallback ==
    /\ ~notified /\ notified'
    /\ UNCHANGED <<job, cancel, cancels, stopFlag, loop>>

\* C19: the monitor invokes its callback only when the utilisation differs
\* by at least utilDeltaThreshold from the value of the last notification; a
\* poll with a smaller change stores the snapshot without waking the core.
C19_CallbackOnlyOnSignificantChange ==
    [][MonitorCallback /\ lastSnapshot.present
          => \E g \in GpuSet :
                 Abs(lastSnapshot'.util[g] - lastSnapshot.util[g])
                     >= utilDeltaThreshold]_vars

\* canScheduleOnGpu is called for device g on this step.
PolicyCalled(g) == now' = now /\ lastCall'.made /\ lastCall'.gpu = g
\* The history of a device is below the threshold on average.
Tame(hist) == SumSeq(hist) < staticUtilThreshold * Len(hist)
\* A call for g leaves the history and the deadline of every other device
\* as they are.
OthersUnaffected(g) ==
    \A h \in GpuSet \ {g} :
        /\ utilHistory'[h] = utilHistory[h]
        /\ cooldownUntil'[h] = cooldownUntil[h]
\* The result of a call for g, given the time since of the call from which
\* the claim counts the cooldown.
CooldownRule(g, since) ==
    /\ detectSpike(utilHistory'[g]) => ~lastCall'.allow
    /\ Within(since, now) => ~lastCall'.allow
    /\ OthersUnaffected(g)
    /\ /\ ~Within(since, now)
       /\ ~detectSpike(utilHistory'[g])
       /\ Tame(utilHistory'[g])
       => lastCall'.allow

\* C20 as stated: a call for g that sees a spike at time t returns deny, and
\* so does every call for g before t + cooldownSeconds, counted from any
\* call that saw a spike; other devices are unaffected; after that time a
\* call with a tame history and no new spike returns allow.
C20_DenyAfterAnySpike ==
    [][\A g \in GpuSet : PolicyCalled(g) => CooldownRule(g, SpikeSeenAt(g))]_vars

\* C20 as amended: the cooldownSeconds are counted from a call that saw the
\* spike outside a running cooldown; a spike seen during a cooldown is
\* denied but does not extend it.
C20_DenyAfterTriggeringSpike ==
    [][\A g \in GpuSet : PolicyCalled(g) => CooldownRule(g, TriggeredAt(g))]_vars

\* A call is allowed again after a cooldown of its device has run out, the
\* other device having been asked about meanwhile.
C20_Witness ==
    /\ lastCall.made
    /\ lastCall.allow
    /\ TriggeredAt(lastCall.gpu) # NoneVal
    /\ ~Within(TriggeredAt(lastCall.gpu), now)
    /\ \E h \in GpuSet \ {lastCall.gpu} : utilHistory[h] # <<>>

\* C21: in every reachable state a job that has a pid is Running or Paused;
\* in particular a preemption victim that is Queued again has none.
C21_PidOnlyWhileRunningOrPaused ==
    \A id \in DOMAIN job :
        job[id].pid # NoneVal => job[id].status \in {"running", "paused"}

\* C22: a job that is Finished, Failed or Cancelled is no longer in the
\* queue manager's index: between passes the index holds only jobs that are
\* Queued, Running or Paused.
C22_IndexHoldsNoTerminalJob ==
    Quiescent => \A id \in jobMap : job[id].status \notin Terminal

\* The scheduling phase obtains an allocation for job id and the policy
\* denies admission.
AdmissionDenied(id) ==
    ScheduleStep /\ loop'.job = id /\ loop'.pc = "endpass"

\* C23: when the policy denies admission for an allocation, the job is on
\* no device's running list when the phase returns, and no child has been
\* started for it.
C23_DenialReleasesAllocation ==
    [][\A id \in DOMAIN job :
          AdmissionDenied(id)
              => /\ ~InRunningMap(id)'
                 /\ runnerVars' = runnerVars]_vars

\* The last n elements of a sequence (all of them when it is shorter).
LastN(s, n) == IF Len(s) <= n THEN s ELSE SubSeq(s, Len(s) - n + 1, Len(s))

\* C24: canScheduleOnGpu(g, util, memUtil) leaves as the history of g its
\* old history with util appended, cut to the last historyWindow samples,
\* and returns allow exactly when g is not cooling down, the last two
\* samples do not differ by more than spikeDelta, memUtil is absent or below
\* staticMemThreshold, and the mean of the history or util itself is below
\* staticUtilThreshold.
C24_AdmissionDecision ==
    [][\A g \in GpuSet :
          PolicyCalled(g) =>
              LET hist == utilHistory'[g]
                  util == lastCall'.util
                  memUtil == lastCall'.memUtil
                  n == Len(hist)
              IN /\ hist = LastN(Append(utilHistory[g], util), historyWindow)
                 /\ lastCall'.allow <=>
                        /\ ~(now < cooldownUntil[g])
                        /\ ~(n >= 2 /\ Abs(hist[n] - hist[n - 1]) > spikeDelta)
                        /\ memUtil = NoneVal \/ memUtil < staticMemThreshold
                        /\ \/ SumSeq(hist) < staticUtilThreshold * n
                           \/ util < staticUtilThreshold]_vars

\* A call with a memory utilisation is allowed by util alone, on a full
\* history whose mean is not below the threshold.
C24_Witness ==
    /\ lastCall.made
    /\ lastCall.allow
    /\ lastCall.memUtil # NoneVal
    /\ Len(utilHistory[lastCall.gpu]) = historyWindow
    /\ ~Tame(utilHistory[lastCall.gpu])

\* A poll of terminateJob reports an exit code on this step.
PollSeesExit ==
    /\ lastCall.made
    /\ lastCall.pc \in {"termwait", "killwait"}
    /\ pollJob(lastCall.pid) # NoneVal
    /\ lastCall' # lastCall

\* C25: terminateJob on a managed pid sends SIGTERM first, and SIGKILL only
\* after every poll of the SIGTERM wait has found the child alive; the poll
\* that reports an exit code drops the pid from both tables and returns that
\* code with no further signal; on a pid outside the process table the call
\* returns None and sends nothing.
C25_TerminateEscalation ==
    /\ [](lastCall.made =>
            /\ lastCall.managed => lastCall.signals # <<>>
            /\ lastCall.signals # <<>> => lastCall.signals[1] = "SIGTERM"
            /\ \A i \in 2..Len(lastCall.signals) :
                   /\ lastCall.signals[i] = "SIGKILL"
                   /\ i = 2
                   /\ lastCall.termWaited = termPolls
            /\ ~lastCall.managed =>
                   /\ lastCall.pc = "returned"
                   /\ lastCall.result = NoneVal
                   /\ lastCall.signals = <<>>)
    /\ [][PollSeesExit =>
            /\ lastCall'.pc = "returned"
            /\ lastCall'.result = child[lastCall.pid]
            /\ lastCall'.signals = lastCall.signals
            /\ lastCall.pid \notin processTable'
            /\ lastCall.pid \notin DOMAIN jobByPid']_vars

\* A child that ignored SIGTERM is reaped after SIGKILL.
C25_Witness ==
    /\ lastCall.made
    /\ lastCall.pc = "returned"
    /\ lastCall.signals = <<"SIGTERM", "SIGKILL">>
    /\ lastCall.result # NoneVal
    /\ lastCall.pid \notin processTable

\* C26: once terminateJob has returned for a managed pid, also after both
\* waits ran out without reaping the child, the pid is in neither of the
\* supervisor's tables.
C26_ExhaustedTerminateDropsPid ==
    /\ lastCall.made
    /\ lastCall.managed
    /\ lastCall.pc = "returned"
    => /\ lastCall.pid \notin processTable
       /\ lastCall.pid \notin DOMAIN jobByPid

\* runner.startJob raises in the scheduling phase on this step.
SpawnFails == loop.pc = "start" /\ LoopMoves /\ nextPid' = nextPid

\* C27: when spawning the child fails in the scheduling phase, the job is
\* taken off every running list and becomes Failed, and the loop thread goes
\* on.
C27_SpawnFailureFailsJob ==
    [][\A id \in DOMAIN job :
          SpawnFails /\ loop.job = id
              => /\ ~InRunningMap(id)'
                 /\ job'[id].status = "failed"
                 /\ LoopAlive']_vars

\* A transition requested by a loop phase is refused on this step
\* (finish in completions, pause in preemption, start in scheduling).
LoopTransitionRefused ==
    /\ LoopMoves
    /\ \/ loop.pc = "finish" /\ ~finish(job[loop.job], TRUE, now).ok
       \/ loop.pc = "pause" /\ ~pause(job[loop.job], now).ok
       \/ /\ loop.pc = "start"
          /\ nextPid' # nextPid
          /\ ~start(job[loop.job], now).ok

\* C28: an illegal-transition error raised inside a loop phase aborts only
\* that handler: the loop thread is alive afterwards.
C28_IllegalTransitionKeepsLoopAlive ==
    [][LoopTransitionRefused => LoopAlive']_vars

\* C29: every public queue manager operation runs under the lock, so no
\* thread is reading the heap or the running map while another thread is in
\* the middle of an operation that mutates it.
C29_NoReadDuringMutation == ~(Qm.reading /\ Qm.op # "none")

\* start() is called on this step while the monitor's thread is alive.
StartOnAlive ==
    /\ Mon.op # "start"
    /\ lastCall'.made
    /\ lastCall'.op = "start"
    /\ Mon.thread # NoneVal
    /\ IsAlive(Mon.thread)

\* C30: under any sequence of start and stop calls at most one polling
\* thread is alive at any time, and start on a monitor whose thread is alive
\* creates no thread.
C30_AtMostOnePollingThread ==
    /\ [](Cardinality(DOMAIN Mon.workers) <= 1)
    /\ [][StartOnAlive => lastCall'.workers = Mon.workers]_vars

\* C31: whenever the heap is not empty, peekHighestPriorityQueued returns
\* the job whose (priority, createdAt, id) entry is the least of all entries
\* in the heap, also after a queued job has been removed.
C31_PeekReturnsMinimum ==
    heap # <<>> =>
        \E i \in 1..Len(heap) :
            /\ peekHighestPriorityQueued(heap, jobMap) = heap[i][3]
            /\ \A k \in 1..Len(heap) : k # i => TupleLess(heap[i], heap[k])


\* A transition that the table refuses is requested on this step: by a loop
\* phase, or by cancelJob after its terminateJob has returned.
TransitionRefused ==
    \/ LoopTransitionRefused
    \/ /\ cancel.pc = "terminated"
       /\ cancel' # cancel
       /\ ~cancelTransition(job[cancel.job], now).ok
\* The scheduling phase spawns a child on this step for a job that is
\* already Cancelled.
SpawnsForCancelled ==
    /\ loop.pc = "start"
    /\ nextPid' # nextPid
    /\ job[loop.job].status = "cancelled"

\* C32: however cancelJob(id) interleaves with a pass of the loop thread, no
\* refused transition is requested on a job and no child is spawned for a
\* job that is already Cancelled.
C32_CancelRaceIsSafe ==
    [][~TransitionRefused /\ ~SpawnsForCancelled]_vars


\* C33: the preemption phase picks a victim only when the top-priority
\* Queued job needs more devices than are free at that moment.
C33_PreemptOnlyWithoutFreeDevices ==
    [][PreemptStep =>
          \A c \in TopQueued : job[c].requiredGpus > Len(FreeList)]_vars


\* Job v has been preempted and requeued (requeueJob leaves its pid), and
\* job c, which outranks it, has been Queued ever since its submission.
PreemptedFor(v, c) ==
    /\ v # c
    /\ job[v].status = "queued"
    /\ job[v].pid # NoneVal
    /\ job[c].status = "queued"
    /\ job[c].startedAt = NoneVal
    /\ job[c].priority < job[v].priority

\* C34: a victim that was preempted on behalf of challenger c is not started
\* again while c is still Queued.
C34_VictimWaitsForChallenger ==
    [][\A v \in DOMAIN job, c \in DOMAIN job :
          PreemptedFor(v, c) => job'[v].status # "running"]_vars


\* C35: between two loop passes, with no cancel under way, the supervisor's
\* two tables hold the same pids and every pid in them belongs to a job that
\* is Running.
C35_TablesHoldRunningJobs ==
    Quiescent =>
        /\ processTable = DOMAIN jobByPid
        /\ \A pid \in processTable : job[jobByPid[pid]].status = "running"


(***************************************************************************)
(* The two jobs of the preemption scenario submitted at any moment, with   *)
(* any telemetry: no cancel, no stop, every command can be spawned, the    *)
(* loop thread keeps running and every child that is left alone exits.     *)
(***************************************************************************)
ProgressNext ==
    \/ \E id \in DOMAIN ScenarioKinds : SubmitJob(id, ScenarioKinds[id])
    \/ \E snap \in Snapshots : MonitorPoll(snap)
    \/ \E pid \in Pids, code \in ExitCodes : ChildExit(pid, code)
    \/ Tick
    \/ ScenarioLoopStep

ProgressSpec ==
    /\ Init
    /\ [][ProgressNext]_vars
    /\ LoopRuns
    /\ \A pid \in Pids : WF_vars(\E code \in ExitCodes : ChildExit(pid, code))

\* The scheduling phase has just returned on a policy denial.
DenialReturned == loop.pc = "endpass" /\ loop.job # NoneVal
\* Job id has been submitted / has ended as Finished or Failed, which a job
\* reaches only from Running.
Submitted(id) == id \in DOMAIN job
Ended(id) == id \in DOMAIN job /\ job[id].status \in {"finished", "failed"}

\* C36: if the policy denies admission only finitely often, every submitted
\* job (never cancelled, needing no more devices than are configured)
\* eventually becomes Running and then reaches a terminal state.
C36_Progress ==
    <>[]~DenialReturned =>
        \A id \in DOMAIN ScenarioKinds : Submitted(id) ~> Ended(id)

=============================================================================
